---- MODULE Spec2Model ----
(***************************************************************************)
(* Verification model of the 1Password launcher extension:                 *)
(*   - the read-through item/vault cache        (src/src/lib/cache.ts)     *)
(*   - search and ranking                       (src/src/lib/utils.ts)     *)
(*   - the session-caching process invoker      (src/unnamed/part_000)     *)
(*   - the generate-password form and builder   (generate-password.tsx)    *)
(*   - the login-item command builders and the tokenizer (src/unnamed/part_001) *)
(*   - the list operations                      (src/unnamed/part_001)     *)
(*   - concurrent runOp calls sharing the session slot (src/unnamed/part_000) *)
(*   - the item list view and its row actions   (src/src/search-items.tsx) *)
(* Each component has its own specification; the variables of the other    *)
(* components rest at their initial values.                                *)
(***************************************************************************)
EXTENDS Integers, Sequences, FiniteSets, TLC

VARIABLES
    \* ---- cache.ts
    cache,          \* the Raycast Cache: key -> serialized string or Absent
    now,            \* Date.now()
    ticks,          \* number of clock advances so far
    setAt,          \* history: per key, the time of its latest set (-1: none since clear)
    lastSet,        \* history: per key, the snapshot of its latest set
    ret,            \* the last cache call and what it returned
    \* ---- utils.ts
    items,          \* searchItems: the item list argument
    query,          \* searchItems: the query argument
    results,        \* searchItems: whether it has returned, and the returned list
    \* ---- op-cli: runOp
    variant,            \* which runOp: "session" (part_000) or "plain" (part_001)
    cachedSessionToken, \* the session slot (NoSession: null)
    processEnv,         \* process.env: session variable name -> token (0: unset)
    issued,             \* tokens the external tool has handed out so far
    att,                \* the attempts of one runOp call: attempt a+1 is a's auth retry
    promise,            \* the promise each attempt's runOp returned
    spawns,             \* history: child processes spawned
    resolutions,        \* history: raw-session (signin --raw) requests issued
    \* ---- generate-password.tsx
    builder,            \* which generatePassword: "item" (part_000) or "plain" (part_001)
    form,               \* the form state: length and the five toggles
    lastEdit,           \* the text most recently typed into the length field
    generatedPassword,  \* the generatedPassword state (0: the empty string)
    isGenerating,       \* the isGenerating state
    gen,                \* the running handleGenerate: position and closure
    toast,              \* the last toast shown
    lastCmd,            \* the argument vector of the last generatePassword invocation
    invoked,            \* history: generatePassword invocations
    runs,               \* history: handleGenerate calls
    edits,              \* history: edits of the form's fields
    \* ---- op-cli: createLoginItem / editLoginItem
    login,              \* one builder call: its input, the command and the argument vector
    \* ---- op-cli: the tokenizer of runOp
    tok,                \* one tokenizer run: the command and the arguments
    \* ---- op-cli: listItems / listVaults / listItemsInVault
    listOp,             \* one list operation: the child's outcome and what was returned
    \* ---- op-cli: concurrent runOp calls and getSessionToken
    calls,              \* the runOp calls of the user actions: position and closure
    \* ---- search-items.tsx / manage-vaults
    view,               \* the view's state hooks and the last toast
    handlers,           \* the running event handlers: position and closure
    viewHist            \* history: invocations, unhandled rejections, the last handler
                        \* to finish, and the latest-started load that fetched a list

cacheVars == <<cache, now, ticks, setAt, lastSet, ret>>

searchVars == <<items, query, results>>

runVars ==
    <<variant, cachedSessionToken, processEnv, issued, att, promise, spawns, resolutions>>

genVars ==
    <<builder, form, lastEdit, generatedPassword, isGenerating, gen, toast, lastCmd,
      invoked, runs, edits>>

loginVars == <<login>>

tokVars == <<tok>>

listVars == <<listOp>>

callVars == <<calls>>

viewVars == <<view, handlers, viewHist>>

restVars == <<loginVars, tokVars, listVars, callVars>>

vars == <<cacheVars, searchVars, runVars, genVars, restVars, viewVars>>

\* what the actions of one component leave alone
nonCacheVars == <<searchVars, runVars, genVars, restVars, viewVars>>

nonSearchVars == <<cacheVars, runVars, genVars, restVars, viewVars>>

nonRunVars == <<cacheVars, searchVars, genVars, restVars, viewVars>>

nonGenVars == <<cacheVars, searchVars, runVars, restVars, viewVars>>

nonLoginVars == <<cacheVars, searchVars, runVars, genVars, tokVars, listVars, callVars, viewVars>>

nonTokVars == <<cacheVars, searchVars, runVars, genVars, loginVars, listVars, callVars, viewVars>>

nonListVars == <<cacheVars, searchVars, runVars, genVars, loginVars, tokVars, callVars, viewVars>>

\* concurrent calls share the session slot, process.env and the counters
nonCallVars ==
    <<cacheVars, searchVars, genVars, loginVars, tokVars, listVars, viewVars,
      variant, att, promise, spawns>>

\* the view's handlers use the cache
nonViewVars == <<searchVars, runVars, genVars, restVars>>

(***************************************************************************)
(* Strings are sequences of one-character strings.                         *)
(***************************************************************************)
Digits == <<"0", "1", "2", "3", "4", "5", "6", "7", "8", "9">>

DigitVal(c) == CHOOSE d \in 0..9 : Digits[d + 1] = c

IsDigit(c) == \E d \in 0..9 : Digits[d + 1] = c

\* Number.prototype.toString / template interpolation of a non-negative integer
RECURSIVE NumToString(_)
NumToString(n) ==
    IF n < 10 THEN <<Digits[n + 1]>>
    ELSE NumToString(n \div 10) \o <<Digits[(n % 10) + 1]>>

\* the white space String.prototype.trim and parseInt skip
IsWhiteSpace(c) == c \in {" ", "\t", "\n", "\r"}

\* parseInt(s, 10): leading white space, an optional sign, then the longest
\* prefix of digits; no digit gives NaN
RECURSIVE ParseDigits(_, _)
ParseDigits(s, acc) ==
    IF s = <<>> \/ ~IsDigit(Head(s)) THEN acc
    ELSE ParseDigits(Tail(s), acc * 10 + DigitVal(Head(s)))

NaN == [nan |-> TRUE, val |-> 0]

Num(n) == [nan |-> FALSE, val |-> n]

RECURSIVE ParseInt(_)
ParseInt(s) ==
    IF s = <<>> THEN NaN
    ELSE IF IsWhiteSpace(Head(s)) THEN ParseInt(Tail(s))
    ELSE IF Head(s) \in {"-", "+"}
    THEN IF Len(s) < 2 \/ ~IsDigit(s[2]) THEN NaN
         ELSE Num((IF Head(s) = "-" THEN -1 ELSE 1) * ParseDigits(Tail(s), 0))
    ELSE IF ~IsDigit(Head(s)) THEN NaN
    ELSE Num(ParseDigits(s, 0))

(***************************************************************************)
(* cache.ts                                                                *)
(***************************************************************************)
\* cache.get of a key that is not stored; no stored text equals it
Absent == <<"absent">>

\* the getters' null; no list a caller stores equals it
NULL == <<[id |-> "null", name |-> "null"]>>

\* no key: the key of a call that has none
NoKey == "none"

ITEMS == "op_items"
VAULTS == "op_vaults"
LAST_UPDATE == "op_last_update"

CACHE_KEYS == {ITEMS, VAULTS, LAST_UPDATE}

DataKeys == {ITEMS, VAULTS}

CACHE_TTL == 5 * 60 * 1000

\* bound on the number of clock advances
MaxTicks == 4

\* the records a snapshot is made of (an item or a vault: id and title/name)
Rec(i, t) == [id |-> i, name |-> t]

\* snapshots the callers store
Snapshots ==
    { <<>>,
      <<Rec("a", "GitHub")>>,
      <<Rec("b", "Bitbucket"), Rec("a", "GitHub")>> }

\* JSON.stringify of a list of records: a token string
RECURSIVE StringifyRecs(_)
StringifyRecs(list) ==
    IF list = <<>> THEN <<>>
    ELSE <<"{", Head(list).id, Head(list).name, "}">> \o StringifyRecs(Tail(list))

JSONStringify(list) == <<"[">> \o StringifyRecs(list) \o <<"]">>

ParseError == "SyntaxError"

\* JSON.parse of the body of an array
RECURSIVE ParseRecs(_)
ParseRecs(s) ==
    IF s = <<>> THEN <<>>
    ELSE IF Len(s) < 4 \/ s[1] # "{" \/ s[4] # "}" THEN ParseError
    ELSE LET rest == ParseRecs(SubSeq(s, 5, Len(s)))
         IN  IF rest = ParseError THEN ParseError
             ELSE <<Rec(s[2], s[3])>> \o rest

JSONParse(s) ==
    IF Len(s) < 2 \/ s[1] # "[" \/ s[Len(s)] # "]" THEN ParseError
    ELSE ParseRecs(SubSeq(s, 2, Len(s) - 1))

\* the body shared by getCachedItems and getCachedVaults, for data key k
GetCached(k) ==
    LET cached == cache[k]
        lastUpdate == cache[LAST_UPDATE]
    IN  IF cached = Absent \/ cached = <<>> \/ lastUpdate = Absent \/ lastUpdate = <<>>
        THEN NULL
        ELSE LET t == ParseInt(lastUpdate)
                 age == now - t.val
             IN  IF ~t.nan /\ age > CACHE_TTL THEN NULL
                 ELSE IF JSONParse(cached) = ParseError THEN NULL
                 ELSE JSONParse(cached)

getCachedItems == GetCached(ITEMS)

getCachedVaults == GetCached(VAULTS)

\* the value a set stores under its data key
StoredMutKeepOld(k, snap) == IF cache[k] = Absent THEN JSONStringify(snap) ELSE cache[k]

Stored(k, snap) == JSONStringify(snap)

\* the body shared by setCachedItems and setCachedVaults
SetCachedEffect(k, snap) ==
    /\ cache' = [cache EXCEPT ![k] = Stored(k, snap), ![LAST_UPDATE] = NumToString(now)]
    /\ setAt' = [setAt EXCEPT ![k] = now]
    /\ lastSet' = [lastSet EXCEPT ![k] = snap]
    /\ ret' = [op |-> "set", key |-> k, val |-> NULL, at |-> now]
    /\ UNCHANGED <<now, ticks>>

\* a caller stores a snapshot
SetCached(k, snap) ==
    /\ SetCachedEffect(k, snap)
    /\ UNCHANGED nonCacheVars

setCachedItems == \E snap \in Snapshots : SetCached(ITEMS, snap)

setCachedVaults == \E snap \in Snapshots : SetCached(VAULTS, snap)

\* a caller reads the items
GetItems ==
    /\ ret' = [op |-> "get", key |-> ITEMS, val |-> getCachedItems, at |-> now]
    /\ UNCHANGED <<cache, now, ticks, setAt, lastSet>>
    /\ UNCHANGED nonCacheVars

\* a caller reads the vaults
GetVaults ==
    /\ ret' = [op |-> "get", key |-> VAULTS, val |-> getCachedVaults, at |-> now]
    /\ UNCHANGED <<cache, now, ticks, setAt, lastSet>>
    /\ UNCHANGED nonCacheVars

clearCache ==
    /\ cache' = [k \in CACHE_KEYS |-> Absent]
    /\ setAt' = [k \in DataKeys |-> -1]
    /\ lastSet' = [k \in DataKeys |-> NULL]
    /\ ret' = [op |-> "clear", key |-> NoKey, val |-> NULL, at |-> now]
    /\ UNCHANGED <<now, ticks>>
    /\ UNCHANGED nonCacheVars

\* the clock advances: by a millisecond, or by the whole TTL
ClockAdvance ==
    /\ ticks < MaxTicks
    /\ \E d \in {1, CACHE_TTL} : now' = now + d
    /\ ticks' = ticks + 1
    /\ UNCHANGED <<cache, setAt, lastSet, ret>>
    /\ UNCHANGED nonCacheVars

\* the cache before any call
CacheIdle ==
    /\ cache = [k \in CACHE_KEYS |-> Absent]
    /\ now = 0
    /\ ticks = 0
    /\ setAt = [k \in DataKeys |-> -1]
    /\ lastSet = [k \in DataKeys |-> NULL]
    /\ ret = [op |-> "none", key |-> NoKey, val |-> NULL, at |-> 0]

CacheNext ==
    \/ setCachedItems
    \/ setCachedVaults
    \/ GetItems
    \/ GetVaults
    \/ clearCache
    \/ ClockAdvance


(***************************************************************************)
(* utils.ts: searchItems                                                   *)
(***************************************************************************)
UpperCase == <<"A", "B", "C", "D", "E", "F", "G", "H", "I", "J", "K", "L", "M",
               "N", "O", "P", "Q", "R", "S", "T", "U", "V", "W", "X", "Y", "Z">>

LowerCase == <<"a", "b", "c", "d", "e", "f", "g", "h", "i", "j", "k", "l", "m",
               "n", "o", "p", "q", "r", "s", "t", "u", "v", "w", "x", "y", "z">>

ToLowerChar(c) ==
    IF \E i \in 1..26 : UpperCase[i] = c
    THEN LowerCase[CHOOSE i \in 1..26 : UpperCase[i] = c]
    ELSE c

\* String.prototype.toLowerCase
ToLowerCase(s) == [i \in 1..Len(s) |-> ToLowerChar(s[i])]

\* String.prototype.trim
RECURSIVE TrimStart(_)
TrimStart(s) ==
    IF s # <<>> /\ IsWhiteSpace(Head(s)) THEN TrimStart(Tail(s)) ELSE s

RECURSIVE TrimEnd(_)
TrimEnd(s) ==
    IF s # <<>> /\ IsWhiteSpace(s[Len(s)]) THEN TrimEnd(SubSeq(s, 1, Len(s) - 1)) ELSE s

Trim(s) == TrimEnd(TrimStart(s))

\* String.prototype.startsWith
StartsWith(s, q) == Len(q) <= Len(s) /\ SubSeq(s, 1, Len(q)) = q

\* String.prototype.includes
Includes(s, q) ==
    \E k \in 0..(Len(s) - Len(q)) : SubSeq(s, k + 1, k + Len(q)) = q

\* the literals pushed to matchedFields
Str_title == <<"t", "i", "t", "l", "e">>

Str_url == <<"u", "r", "l">>

Str_notes == <<"n", "o", "t", "e", "s">>

\* !query.trim()
IsBlankMutNoTrim(q) == q = <<>>

IsBlank(q) == Trim(q) = <<>>

\* the bonus for a title that starts with the query
PrefixBonusMutNone(title, lowerQuery) == 0

PrefixBonus(title, lowerQuery) ==
    IF StartsWith(ToLowerCase(title), lowerQuery) THEN 5 ELSE 0

\* the title block: its score and its matched fields
TitleMatch(item, lowerQuery) ==
    IF Includes(ToLowerCase(item.title), lowerQuery)
    THEN [score |-> 10 + PrefixBonus(item.title, lowerQuery), matched |-> <<Str_title>>]
    ELSE [score |-> 0, matched |-> <<>>]

\* the loop over item.urls
RECURSIVE UrlMatch(_, _)
UrlMatch(urls, lowerQuery) ==
    IF urls = <<>> THEN [score |-> 0, matched |-> <<>>]
    ELSE LET rest == UrlMatch(Tail(urls), lowerQuery)
         IN  IF Includes(ToLowerCase(Head(urls).href), lowerQuery)
             THEN [score |-> 3 + rest.score, matched |-> <<Str_url>> \o rest.matched]
             ELSE rest

\* the loop over item.fields
RECURSIVE FieldMatch(_, _)
FieldMatch(fields, lowerQuery) ==
    IF fields = <<>> THEN [score |-> 0, matched |-> <<>>]
    ELSE LET f == Head(fields)
             rest == FieldMatch(Tail(fields), lowerQuery)
             byValue == f.value # <<>> /\ Includes(ToLowerCase(f.value), lowerQuery)
             byLabel == Includes(ToLowerCase(f.label), lowerQuery)
         IN  [score |-> (IF byValue THEN 2 ELSE 0) + (IF byLabel THEN 1 ELSE 0) + rest.score,
              matched |-> (IF byValue THEN <<f.label>> ELSE <<>>)
                          \o (IF byLabel THEN <<f.label>> ELSE <<>>)
                          \o rest.matched]

\* the notes block
NotesMatch(item, lowerQuery) ==
    IF item.notesPlain # <<>> /\ Includes(ToLowerCase(item.notesPlain), lowerQuery)
    THEN [score |-> 1, matched |-> <<Str_notes>>]
    ELSE [score |-> 0, matched |-> <<>>]

\* [...new Set(list)]: the first occurrence of each element, in order
RECURSIVE Dedup(_, _)
Dedup(list, seen) ==
    IF list = <<>> THEN <<>>
    ELSE IF Head(list) \in seen THEN Dedup(Tail(list), seen)
    ELSE <<Head(list)>> \o Dedup(Tail(list), seen \cup {Head(list)})

\* the body of the loop over the items: the result of one item (score 0: none)
ScoreItem(item, lowerQuery) ==
    LET t == TitleMatch(item, lowerQuery)
        u == UrlMatch(item.urls, lowerQuery)
        f == FieldMatch(item.fields, lowerQuery)
        n == NotesMatch(item, lowerQuery)
    IN  [item |-> item,
         score |-> t.score + u.score + f.score + n.score,
         matchedFields |-> Dedup(t.matched \o u.matched \o f.matched \o n.matched, {})]

RECURSIVE Collect(_, _)
Collect(list, lowerQuery) ==
    IF list = <<>> THEN <<>>
    ELSE LET r == ScoreItem(Head(list), lowerQuery)
         IN  (IF r.score > 0 THEN <<r>> ELSE <<>>) \o Collect(Tail(list), lowerQuery)

\* score || 0
ScoreOrZero(r) == IF "score" \in DOMAIN r THEN r.score ELSE 0

\* the comparator of the sort: (b.score || 0) - (a.score || 0)
CompareMutAscending(a, b) == ScoreOrZero(a) - ScoreOrZero(b)

Compare(a, b) == ScoreOrZero(b) - ScoreOrZero(a)

\* Array.prototype.sort is stable: r goes behind every element it does not
\* have to precede
RECURSIVE InsertSorted(_, _)
InsertSorted(sorted, r) ==
    IF sorted = <<>> THEN <<r>>
    ELSE IF Compare(Head(sorted), r) <= 0
         THEN <<Head(sorted)>> \o InsertSorted(Tail(sorted), r)
         ELSE <<r>> \o sorted

RECURSIVE SortFrom(_, _)
SortFrom(list, acc) ==
    IF list = <<>> THEN acc ELSE SortFrom(Tail(list), InsertSorted(acc, Head(list)))

Sort(list) == SortFrom(list, <<>>)

searchItems(list, q) ==
    IF IsBlank(q)
    THEN [i \in 1..Len(list) |-> [item |-> list[i]]]
    ELSE Sort(Collect(list, ToLowerCase(q)))

Url(h) == [href |-> h]

Field(l, v) == [label |-> l, value |-> v]

Item(i, t, u, f, n) == [id |-> i, title |-> t, urls |-> u, fields |-> f, notesPlain |-> n]

GitHub == Item("1", <<"G", "i", "t", "H", "u", "b">>, <<>>, <<>>, <<>>)

Bitbucket ==
    Item("2", <<"B", "i", "t", "b", "u", "c", "k", "e", "t">>, <<>>,
         <<Field(<<"n", "o", "t", "e">>, <<"g", "i", "t", "h", "u", "b", " ", "b", "a", "c", "k", "u", "p">>)>>,
         <<>>)

Legit ==
    Item("3", <<"L", "e", "g", "i", "t">>,
         <<Url(<<"a", ".", "G", "I", "T">>), Url(<<"g", "i", "t", ".", "i", "o">>)>>,
         <<>>,
         <<"m", "y", " ", "g", "i", "t">>)

GitLab == Item("4", <<"G", "I", "T", "L", "a", "b">>, <<>>, <<>>, <<>>)

Mail ==
    Item("5", <<"M", "a", "i", "l">>, <<>>,
         <<Field(<<"G", "i", "t", " ", "k", "e", "y">>, <<>>)>>, <<>>)

Bank ==
    Item("6", <<"B", "a", "n", "k">>, <<>>,
         <<Field(<<"p", "i", "n">>, <<"d", "i", "g", "i", "t">>)>>, <<>>)

ItemPool == {GitHub, Bitbucket, Legit, GitLab, Mail, Bank}

\* bound on the length of the item list
MaxItems == 3

\* the item lists: items of distinct ids
ItemLists ==
    UNION { { l \in [1..n -> ItemPool] : \A i, j \in 1..n : i # j => l[i] # l[j] }
            : n \in 0..MaxItems }

Query_git == <<"g", "i", "t">>

Queries ==
    { <<>>, <<" ">>, <<" ", "\t">>, <<"\n">>,
      Query_git, <<"G", "I", "T">>, <<"G", "i">>, <<" ", "g", "i", "t">>,
      <<"b">>, <<"n", "o", "t", "e">>, <<"z">> }

\* a caller (the list view) ranks its items against the search text
Search ==
    /\ ~results.done
    /\ results' = [done |-> TRUE, list |-> searchItems(items, query)]
    /\ UNCHANGED <<items, query>>
    /\ UNCHANGED nonSearchVars

\* searchItems is not running
SearchIdle ==
    /\ items = <<>>
    /\ query = <<>>
    /\ results = [done |-> TRUE, list |-> <<>>]

SearchInit ==
    /\ items \in ItemLists
    /\ query \in Queries
    /\ results = [done |-> FALSE, list |-> <<>>]

SearchNext == Search

(***************************************************************************)
(* op-cli: runOp, getSessionToken                                          *)
(***************************************************************************)
\* bound on the attempts of one call (the code makes two at most)
MaxAttempts == 3

Attempts == 1..MaxAttempts

\* setTimeout(..., 30000)
TIMEOUT_MS == 30000

\* the clock of the timers advances in steps of TIMEOUT_MS / TicksPerTimeout
TicksPerTimeout == 3

TickMs == TIMEOUT_MS \div TicksPerTimeout

\* OP_SESSION_<account> and OP_SESSION_default
SessionNames == {"acct", "default"}

NoSession == [name |-> "none", value |-> 0]

Handle(n, v) == [name |-> n, value |-> v]

EmptyEnv == [n \in SessionNames |-> 0]

\* what a child wrote to stderr, by the substrings the close handler looks for
Stderr(ne, au, ap, w) == [nonEmpty |-> ne, auth |-> au, app |-> ap, warning |-> w]

NoStderr == Stderr(FALSE, FALSE, FALSE, FALSE)

AuthStderr == Stderr(TRUE, TRUE, FALSE, FALSE)

AppStderr == Stderr(TRUE, FALSE, TRUE, FALSE)

StderrKinds ==
    { NoStderr, AuthStderr, AppStderr,
      Stderr(TRUE, TRUE, TRUE, FALSE),      \* both messages
      Stderr(TRUE, FALSE, FALSE, FALSE),    \* some other failure text
      Stderr(TRUE, FALSE, FALSE, TRUE),     \* a warning
      Stderr(TRUE, TRUE, FALSE, TRUE) }     \* a warning and an auth message

\* promise states
PendingP == [state |-> "pending", err |-> "none", stderr |-> NoStderr]

Resolved == [state |-> "resolved", err |-> "none", stderr |-> NoStderr]

Rejected(e, se) == [state |-> "rejected", err |-> e, stderr |-> se]

\* the errors runOp rejects with
TimeoutError == Rejected("timeout", NoStderr)           \* "Command timeout after 30 seconds"

SpawnError == Rejected("spawnError", NoStderr)          \* "Failed to execute op command: ..."

SignInError == Rejected("signin", NoStderr)             \* "Please sign in to 1Password CLI. ..."

AppUnreachableError == Rejected("appUnreachable", NoStderr) \* "Cannot connect to 1Password desktop app. ..."

StderrError(se) == Rejected("stderr", se)               \* new Error(stderr)

ExitCodeError(se) == Rejected("exitCode", se)           \* "Command failed with exit code ..."

NoAttempt ==
    [pc |-> "none", retryWithAuth |-> FALSE, timerArmed |-> FALSE, left |-> 0,
     env |-> EmptyEnv, session |-> NoSession, fresh |-> FALSE, timedOut |-> FALSE,
     exit |-> "none", code |-> 0, stderr |-> NoStderr]

\* resolve/reject of attempt a's promise with outcome out; a promise settles
\* once, and the close handler that awaits a retry's promise continues with
\* resolve(result), or in its catch with the sign-in error
RECURSIVE Settle(_, _, _)
Settle(p, a, out) ==
    IF p[a].state # "pending" THEN p
    ELSE LET p1 == [p EXCEPT ![a] = out]
         IN  IF a > 1
             THEN Settle(p1, a - 1, IF out.state = "resolved" THEN out ELSE SignInError)
             ELSE p1

\* the retryWithAuth argument of the retry: runOp(command, false)
RetryFlagMutTrue == TRUE

RetryFlag == FALSE

\* what the close handler decides for exit code `code` and stderr `se`
CloseDecisionMutAuthFirst(v, code, se, retryWithAuth) ==
    IF code = 0 THEN [kind |-> "settle", out |-> Resolved]
    ELSE IF v = "session"
    THEN IF se.auth /\ retryWithAuth THEN [kind |-> "retry", out |-> PendingP]
         ELSE IF se.nonEmpty /\ ~se.warning THEN [kind |-> "settle", out |-> StderrError(se)]
         ELSE [kind |-> "settle", out |-> ExitCodeError(se)]
    ELSE IF se.auth THEN [kind |-> "settle", out |-> SignInError]
         ELSE IF se.app THEN [kind |-> "settle", out |-> AppUnreachableError]
         ELSE IF se.nonEmpty /\ ~se.warning THEN [kind |-> "settle", out |-> StderrError(se)]
         ELSE [kind |-> "settle", out |-> ExitCodeError(se)]

CloseDecisionMutRetryAny(v, code, se, retryWithAuth) ==
    IF code = 0 THEN [kind |-> "settle", out |-> Resolved]
    ELSE IF v = "session"
    THEN IF retryWithAuth THEN [kind |-> "retry", out |-> PendingP]
         ELSE IF se.nonEmpty /\ ~se.warning THEN [kind |-> "settle", out |-> StderrError(se)]
         ELSE [kind |-> "settle", out |-> ExitCodeError(se)]
    ELSE IF se.app THEN [kind |-> "settle", out |-> AppUnreachableError]
         ELSE IF se.auth THEN [kind |-> "settle", out |-> SignInError]
         ELSE IF se.nonEmpty /\ ~se.warning THEN [kind |-> "settle", out |-> StderrError(se)]
         ELSE [kind |-> "settle", out |-> ExitCodeError(se)]

CloseDecision(v, code, se, retryWithAuth) ==
    IF code = 0 THEN [kind |-> "settle", out |-> Resolved]
    ELSE IF v = "session"
    THEN IF se.auth /\ retryWithAuth THEN [kind |-> "retry", out |-> PendingP]
         ELSE IF se.nonEmpty /\ ~se.warning THEN [kind |-> "settle", out |-> StderrError(se)]
         ELSE [kind |-> "settle", out |-> ExitCodeError(se)]
    ELSE IF se.app THEN [kind |-> "settle", out |-> AppUnreachableError]
         ELSE IF se.auth THEN [kind |-> "settle", out |-> SignInError]
         ELSE IF se.nonEmpty /\ ~se.warning THEN [kind |-> "settle", out |-> StderrError(se)]
         ELSE [kind |-> "settle", out |-> ExitCodeError(se)]

\* the slot after the close handler saw an auth failure it retries
SlotAfterAuthFailureMutKeep == cachedSessionToken

SlotAfterAuthFailure == NoSession

\* child.on("close"): attempt a's child is gone with `code` and `se`
CloseHandler(a, code, se, how) ==
    LET d == CloseDecision(variant, code, se, att[a].retryWithAuth)
    IN  IF d.kind = "retry" /\ a < MaxAttempts
        THEN /\ cachedSessionToken' = SlotAfterAuthFailure
             /\ att' = [att EXCEPT ![a].pc = "closed", ![a].exit = how,
                                   ![a].code = code, ![a].stderr = se,
                                   ![a + 1] = [NoAttempt EXCEPT !.pc = "resolving",
                                                                !.retryWithAuth = RetryFlag]]
             /\ UNCHANGED promise
        ELSE /\ att' = [att EXCEPT ![a].pc = "closed", ![a].exit = how,
                                   ![a].code = code, ![a].stderr = se]
             /\ promise' = Settle(promise, a, d.out)
             /\ UNCHANGED cachedSessionToken

\* a caller calls runOp(command): the executor runs up to its first await
StartRunOp ==
    /\ att[1].pc = "none"
    /\ att' = [att EXCEPT ![1] = [NoAttempt EXCEPT !.pc = "resolving", !.retryWithAuth = TRUE]]
    /\ UNCHANGED <<variant, cachedSessionToken, processEnv, issued, promise, spawns, resolutions>>
    /\ UNCHANGED nonRunVars

\* spawn(...) and setTimeout(..., 30000) with the environment env
Spawned(a, env, session, fresh) ==
    /\ att' = [att EXCEPT ![a].pc = "running", ![a].env = env, ![a].session = session,
                          ![a].fresh = fresh, ![a].timerArmed = TRUE,
                          ![a].left = TIMEOUT_MS]
    /\ spawns' = spawns + 1

\* getSessionToken returns, and runOp spawns the child and arms its timer.
\* With the slot filled the handle is returned as it is; with the slot empty a
\* raw-session request is made: it fails (null), or its token is cached under
\* the account's name, or under "default" when the account list fails.
ResolveAndSpawn(a) ==
    /\ att[a].pc = "resolving"
    /\ IF variant = "plain"
       THEN /\ Spawned(a, processEnv, NoSession, FALSE)
            /\ UNCHANGED <<cachedSessionToken, processEnv, issued, resolutions>>
       ELSE IF cachedSessionToken # NoSession
       THEN /\ Spawned(a, [processEnv EXCEPT ![cachedSessionToken.name] =
                                                 cachedSessionToken.value],
                       cachedSessionToken, FALSE)
            /\ UNCHANGED <<cachedSessionToken, processEnv, issued, resolutions>>
       ELSE /\ resolutions' = resolutions + 1
            /\ \/ /\ Spawned(a, processEnv, NoSession, TRUE)
                  /\ UNCHANGED <<cachedSessionToken, processEnv, issued>>
               \/ \E n \in SessionNames :
                     LET h == Handle(n, issued + 1)
                     IN  /\ issued' = issued + 1
                         /\ cachedSessionToken' = h
                         /\ processEnv' = [processEnv EXCEPT ![n] = h.value]
                         /\ Spawned(a, [processEnv EXCEPT ![n] = h.value], h, TRUE)
    /\ UNCHANGED <<variant, promise>>
    /\ UNCHANGED nonRunVars

\* the child cannot be started: "error" is emitted, then "close" with a
\* negative code and nothing on stderr
ChildError(a) ==
    /\ att[a].pc = "running"
    /\ att' = [att EXCEPT ![a].pc = "closed", ![a].exit = "error", ![a].code = 1]
    /\ promise' = Settle(promise, a, SpawnError)
    /\ UNCHANGED <<variant, cachedSessionToken, processEnv, issued, spawns, resolutions>>
    /\ UNCHANGED nonRunVars

\* the child exits by itself
ChildClose(a) ==
    /\ att[a].pc = "running"
    /\ \E code \in {0, 1}, se \in StderrKinds : CloseHandler(a, code, se, "exit")
    /\ UNCHANGED <<variant, processEnv, issued, spawns, resolutions>>
    /\ UNCHANGED nonRunVars

\* what the timer callback does to a child that is still running
AfterKillMutNoKill(pc) == pc

AfterKill(pc) == IF pc = "running" THEN "killed" ELSE pc

\* the promise after the timer callback
AfterTimeoutMutNoReject(a) == promise

AfterTimeout(a) == Settle(promise, a, TimeoutError)

\* the timer of attempt a fires: child.kill(); reject(timeout error)
TimerFire(a) ==
    /\ att[a].timerArmed /\ att[a].left = 0
    /\ \A b \in Attempts : b < a => ~(att[b].timerArmed /\ att[b].left = 0)
    /\ att' = [att EXCEPT ![a].timerArmed = FALSE,
                          ![a].pc = AfterKill(att[a].pc),
                          ![a].timedOut = (att[a].pc = "running")]
    /\ promise' = AfterTimeout(a)
    /\ UNCHANGED <<variant, cachedSessionToken, processEnv, issued, spawns, resolutions>>
    /\ UNCHANGED nonRunVars

\* "close" of a child the timer killed: the code is null, stderr is whatever
\* the child had written
CloseAfterKill(a) ==
    /\ att[a].pc = "killed"
    /\ \E se \in StderrKinds : CloseHandler(a, 1, se, "killed")
    /\ UNCHANGED <<variant, processEnv, issued, spawns, resolutions>>
    /\ UNCHANGED nonRunVars

\* time passes; a timer that is due fires before more time passes
Tick ==
    /\ \E a \in Attempts : att[a].timerArmed
    /\ \A a \in Attempts : att[a].timerArmed => att[a].left > 0
    /\ att' = [a \in Attempts |->
                 IF att[a].timerArmed
                 THEN [att[a] EXCEPT !.left = IF @ >= TickMs THEN @ - TickMs ELSE 0]
                 ELSE att[a]]
    /\ UNCHANGED <<variant, cachedSessionToken, processEnv, issued, promise, spawns, resolutions>>
    /\ UNCHANGED nonRunVars

\* no runOp call
RunIdle ==
    /\ variant = "session"
    /\ cachedSessionToken = NoSession
    /\ processEnv = EmptyEnv
    /\ issued = 0
    /\ att = [a \in Attempts |-> NoAttempt]
    /\ promise = [a \in Attempts |-> PendingP]
    /\ spawns = 0
    /\ resolutions = 0

\* before a runOp call: the slot is empty (a fresh process, or a session that
\* was invalidated and left its token in process.env) or holds a handle
RunInit ==
    /\ variant \in {"session", "plain"}
    /\ \/ cachedSessionToken = NoSession /\ processEnv = EmptyEnv /\ issued = 0
       \/ /\ variant = "session"
          /\ \E n \in SessionNames :
                /\ cachedSessionToken \in {NoSession, Handle(n, 1)}
                /\ processEnv = [EmptyEnv EXCEPT ![n] = 1]
          /\ issued = 1
    /\ att = [a \in Attempts |-> NoAttempt]
    /\ promise = [a \in Attempts |-> PendingP]
    /\ spawns = 0
    /\ resolutions = 0

RunNext ==
    \/ StartRunOp
    \/ \E a \in Attempts : ResolveAndSpawn(a)
    \/ \E a \in Attempts : ChildError(a)
    \/ \E a \in Attempts : ChildClose(a)
    \/ \E a \in Attempts : TimerFire(a)
    \/ \E a \in Attempts : CloseAfterKill(a)
    \/ Tick

(***************************************************************************)
(* op-cli: runOp calls of concurrent user actions, getSessionToken         *)
(***************************************************************************)
\* bound on the runOp calls the user actions make
MaxCalls == 2

Calls == 1..MaxCalls

NoCall ==
    [pc |-> "none", retryWithAuth |-> TRUE, token |-> 0, session |-> NoSession]

\* if (cachedSessionToken) return cachedSessionToken
SlotHitMutNever(slot) == FALSE

SlotHit(slot) == slot # NoSession

\* runOp up to its first wait for the external tool: getSessionToken is
\* called; with a handle in `slot` it returns the handle and the child is
\* spawned with it (`session`: the sessionInfo written into the child's
\* environment), otherwise `signin --raw` is started
Enter(c, slot, retryWithAuth) ==
    IF SlotHit(slot)
    THEN /\ calls' = [calls EXCEPT ![c].pc = "running",
                                    ![c].retryWithAuth = retryWithAuth,
                                    ![c].session = slot]
         /\ UNCHANGED resolutions
    ELSE /\ calls' = [calls EXCEPT ![c].pc = "signin",
                                    ![c].retryWithAuth = retryWithAuth,
                                    ![c].session = NoSession]
         /\ resolutions' = resolutions + 1

\* a user action calls runOp(command); the k-th call is call k
CallRunOp(c) ==
    /\ calls[c].pc = "none"
    /\ \A b \in Calls : b < c => calls[b].pc # "none"
    /\ Enter(c, cachedSessionToken, TRUE)
    /\ UNCHANGED <<cachedSessionToken, processEnv, issued>>
    /\ UNCHANGED nonCallVars

\* `signin --raw` returns: no usable token (getSessionToken returns null and
\* the child is spawned without a session), or a token, and the account list
\* is requested
SigninReturns(c) ==
    /\ calls[c].pc = "signin"
    /\ \/ /\ calls' = [calls EXCEPT ![c].pc = "running"]
          /\ UNCHANGED issued
       \/ /\ issued' = issued + 1
          /\ calls' = [calls EXCEPT ![c].pc = "accounts", ![c].token = issued + 1]
    /\ UNCHANGED <<cachedSessionToken, processEnv, resolutions>>
    /\ UNCHANGED nonCallVars

\* `account list` returns: the token is cached under the account's name,
\* under "default" when the list fails, and dropped when the list is empty;
\* then the child is spawned
AccountsReturn(c) ==
    /\ calls[c].pc = "accounts"
    /\ \/ \E n \in SessionNames :
             LET h == Handle(n, calls[c].token)
             IN  /\ cachedSessionToken' = h
                 /\ processEnv' = [processEnv EXCEPT ![n] = h.value]
                 /\ calls' = [calls EXCEPT ![c].pc = "running", ![c].session = h,
                                            ![c].token = 0]
       \/ /\ calls' = [calls EXCEPT ![c].pc = "running", ![c].token = 0]
          /\ UNCHANGED <<cachedSessionToken, processEnv>>
    /\ UNCHANGED <<issued, resolutions>>
    /\ UNCHANGED nonCallVars

\* how a child ends: exit 0, an auth-required failure, another failure
ChildExitKinds == { <<0, NoStderr>>, <<1, AuthStderr>>, <<1, AppStderr>> }

\* the child closes: on an auth-required failure of a first attempt the slot
\* is cleared and runOp(command, false) is called, otherwise the caller's
\* promise is settled
ChildExits(c) ==
    /\ calls[c].pc = "running"
    /\ \E x \in ChildExitKinds :
          LET d == CloseDecision("session", x[1], x[2], calls[c].retryWithAuth)
          IN  IF d.kind = "retry"
              THEN /\ cachedSessionToken' = SlotAfterAuthFailure
                   /\ Enter(c, SlotAfterAuthFailure, RetryFlag)
              ELSE /\ calls' = [calls EXCEPT ![c] = [NoCall EXCEPT !.pc = "done"]]
                   /\ UNCHANGED <<cachedSessionToken, resolutions>>
    /\ UNCHANGED <<processEnv, issued>>
    /\ UNCHANGED nonCallVars

\* no concurrent calls
CallsIdle == calls = [c \in Calls |-> NoCall]

\* before the first call: a fresh process, or one in which a session was
\* resolved earlier and is still cached or was invalidated
CallsInit ==
    /\ RunInit
    /\ variant = "session"
    /\ processEnv["default"] = 0
    /\ CallsIdle

CallsNext ==
    \/ \E c \in Calls : CallRunOp(c)
    \/ \E c \in Calls : SigninReturns(c)
    \/ \E c \in Calls : AccountsReturn(c)
    \/ \E c \in Calls : ChildExits(c)

(***************************************************************************)
(* op-cli: the tokenizer of runOp and generatePassword                     *)
(***************************************************************************)
\* the body of runOp's loop over the characters of the command
TokenizeStepMutSplitInQuotes(st, char) ==
    IF char = "\""
    THEN [st EXCEPT !.inQuotes = ~@]
    ELSE IF char = " "
    THEN IF Len(st.currentArg) > 0
         THEN [st EXCEPT !.args = Append(@, st.currentArg), !.currentArg = <<>>]
         ELSE st
    ELSE [st EXCEPT !.currentArg = Append(@, char)]

TokenizeStep(st, char) ==
    IF char = "\""
    THEN [st EXCEPT !.inQuotes = ~@]
    ELSE IF char = " " /\ ~st.inQuotes
    THEN IF Len(st.currentArg) > 0
         THEN [st EXCEPT !.args = Append(@, st.currentArg), !.currentArg = <<>>]
         ELSE st
    ELSE [st EXCEPT !.currentArg = Append(@, char)]

\* the loop, over the characters lo..hi in order: first the lower half, then
\* the upper half from the state the lower half left (the test on `half`
\* only makes the lower half be evaluated first)
RECURSIVE TokenizeLoop(_, _, _, _)
TokenizeLoop(command, lo, hi, st) ==
    IF lo > hi THEN st
    ELSE IF lo = hi THEN TokenizeStep(st, command[lo])
    ELSE LET mid == (lo + hi) \div 2
             half == TokenizeLoop(command, lo, mid, st)
         IN  IF half.inQuotes \in BOOLEAN
             THEN TokenizeLoop(command, mid + 1, hi, half)
             ELSE half

\* the argument vector runOp spawns the child with
Tokenize(command) ==
    LET st == TokenizeLoop(command, 1, Len(command),
                           [args |-> <<>>, currentArg |-> <<>>, inQuotes |-> FALSE])
    IN  IF Len(st.currentArg) > 0 THEN Append(st.args, st.currentArg) ELSE st.args

\* Array.prototype.join(" ")
RECURSIVE JoinSpace(_)
JoinSpace(parts) ==
    IF parts = <<>> THEN <<>>
    ELSE IF Len(parts) = 1 THEN Head(parts)
    ELSE Head(parts) \o <<" ">> \o JoinSpace(Tail(parts))

Str_length == <<"-", "-", "l", "e", "n", "g", "t", "h">>

Str_noUppercase == <<"-", "-", "n", "o", "-", "u", "p", "p", "e", "r", "c", "a", "s", "e">>

Str_noLowercase == <<"-", "-", "n", "o", "-", "l", "o", "w", "e", "r", "c", "a", "s", "e">>

Str_noDigits == <<"-", "-", "n", "o", "-", "d", "i", "g", "i", "t", "s">>

Str_noSymbols == <<"-", "-", "n", "o", "-", "s", "y", "m", "b", "o", "l", "s">>

Str_excludeSymbols == <<"-", "-", "e", "x", "c", "l", "u", "d", "e", "-", "s", "y", "m", "b", "o", "l", "s">>

Str_itemGenerate == <<"i", "t", "e", "m", " ", "g", "e", "n", "e", "r", "a", "t", "e", " ", "-", "-", "c", "a", "t", "e", "g", "o", "r", "y", " ", "p", "a", "s", "s", "w", "o", "r", "d", " ">>

Str_generatePassword == <<"g", "e", "n", "e", "r", "a", "t", "e", " ", "p", "a", "s", "s", "w", "o", "r", "d", " ">>

\* the flag of the digits toggle
DigitsFlagMutInverted(options) == IF options.numbers THEN <<Str_noDigits>> ELSE <<>>

DigitsFlag(options) == IF ~options.numbers THEN <<Str_noDigits>> ELSE <<>>

\* the flags array of generatePassword
Flags(b, options) ==
    (IF options.length # 0 THEN <<Str_length \o <<" ">> \o NumToString(options.length)>> ELSE <<>>)
    \o (IF ~options.uppercase THEN <<Str_noUppercase>> ELSE <<>>)
    \o (IF ~options.lowercase THEN <<Str_noLowercase>> ELSE <<>>)
    \o DigitsFlag(options)
    \o (IF ~options.symbols THEN <<Str_noSymbols>> ELSE <<>>)
    \o (IF b = "plain" /\ options.excludeAmbiguous THEN <<Str_excludeSymbols>> ELSE <<>>)

\* the command string generatePassword hands to runOp
GeneratePasswordCommand(b, options) ==
    (IF b = "item" THEN Str_itemGenerate ELSE Str_generatePassword)
    \o JoinSpace(Flags(b, options))

(***************************************************************************)
(* generate-password.tsx                                                   *)
(***************************************************************************)
\* bound on the user's actions: edits of the form's fields and handleGenerate
\* calls
MaxActions == 3

\* texts typed into the length field
LengthTexts ==
    { <<"7">>, <<"8">>, <<"1", "2", "9">>, <<"1", "2", "x">>, <<"a", "b", "c">> }

Str_20 == <<"2", "0">>

CharClasses == {"uppercase", "lowercase", "numbers", "symbols"}

\* the length field's onChange
LengthAfterEditMutNoCheck(text) ==
    IF ParseInt(text).nan THEN form.length ELSE ParseInt(text).val

LengthAfterEditMutNoUpperLimit(text) ==
    LET num == ParseInt(text)
    IN  IF ~num.nan /\ num.val >= 8 THEN num.val ELSE form.length

LengthAfterEdit(text) ==
    LET num == ParseInt(text)
    IN  IF ~num.nan /\ num.val >= 8 /\ num.val <= 128 THEN num.val ELSE form.length

EditLength ==
    /\ edits + runs < MaxActions
    /\ edits' = edits + 1
    /\ \E text \in LengthTexts :
          /\ lastEdit' = text
          /\ form' = [form EXCEPT !.length = LengthAfterEdit(text)]
    /\ UNCHANGED <<builder, generatedPassword, isGenerating, gen, toast, lastCmd, invoked, runs>>
    /\ UNCHANGED nonGenVars

\* a checkbox's onChange
Toggle ==
    /\ edits + runs < MaxActions
    /\ edits' = edits + 1
    /\ \E c \in CharClasses \cup {"excludeAmbiguous"} : form' = [form EXCEPT ![c] = ~@]
    /\ UNCHANGED <<builder, lastEdit, generatedPassword, isGenerating, gen, toast, lastCmd,
                   invoked, runs>>
    /\ UNCHANGED nonGenVars

NoToast == [style |-> "none", message |-> "none", run |-> 0]

FailureToast(m) == [style |-> "failure", message |-> m, run |-> runs]

GenIdleState ==
    [pc |-> "idle", options |-> [length |-> 20, uppercase |-> TRUE, lowercase |-> TRUE,
                                 numbers |-> TRUE, symbols |-> TRUE,
                                 excludeAmbiguous |-> FALSE],
     typed |-> Str_20, outcome |-> "none", before |-> 0, invokedBefore |-> 0]

\* the handler ends: setIsGenerating(false)
Finish(outcome) ==
    /\ gen' = [gen EXCEPT !.pc = "done", !.outcome = outcome]
    /\ isGenerating' = FALSE

\* handleGenerate is called: setIsGenerating(true), then it awaits
\* isOPInstalled(); the handler reads the state of the render it belongs to
HandleGenerate ==
    /\ gen.pc \in {"idle", "done"}
    /\ edits + runs < MaxActions
    /\ runs' = runs + 1
    /\ isGenerating' = TRUE
    /\ gen' = [pc |-> "installed", options |-> form, typed |-> lastEdit, outcome |-> "none",
               before |-> generatedPassword, invokedBefore |-> invoked]
    /\ UNCHANGED <<builder, form, lastEdit, generatedPassword, toast, lastCmd, invoked>>
    /\ UNCHANGED <<edits, nonGenVars>>

\* isOPInstalled() returns
InstalledReturns ==
    /\ gen.pc = "installed"
    /\ \E installed \in BOOLEAN :
          IF ~installed
          THEN /\ toast' = FailureToast("1Password CLI is not installed")
               /\ Finish("notInstalled")
          ELSE /\ gen' = [gen EXCEPT !.pc = "signedIn"]
               /\ UNCHANGED <<toast, isGenerating>>
    /\ UNCHANGED <<builder, form, lastEdit, generatedPassword, lastCmd, invoked, runs>>
    /\ UNCHANGED <<edits, nonGenVars>>

\* no character set is selected
NoCharsetMutNever(options) == FALSE

NoCharset(options) ==
    ~options.uppercase /\ ~options.lowercase /\ ~options.numbers /\ ~options.symbols

\* isSignedIn() returns; signed in, the handler validates the character sets
\* and calls generatePassword(options)
SignedInReturns ==
    /\ gen.pc = "signedIn"
    /\ \E signedIn \in BOOLEAN :
          IF ~signedIn
          THEN /\ toast' = FailureToast("Please sign in to 1Password CLI")
               /\ Finish("notSignedIn")
               /\ UNCHANGED <<lastCmd, invoked>>
          ELSE IF NoCharset(gen.options)
          THEN /\ toast' = FailureToast("Please select at least one character set")
               /\ Finish("noCharset")
               /\ UNCHANGED <<lastCmd, invoked>>
          ELSE /\ lastCmd' = Tokenize(GeneratePasswordCommand(builder, gen.options))
               /\ invoked' = invoked + 1
               /\ gen' = [gen EXCEPT !.pc = "generating"]
               /\ UNCHANGED <<toast, isGenerating>>
    /\ UNCHANGED <<builder, form, lastEdit, generatedPassword, runs>>
    /\ UNCHANGED <<edits, nonGenVars>>

\* generatePassword(options) returns the password, or throws
GenerateReturns ==
    /\ gen.pc = "generating"
    /\ \/ /\ generatedPassword' = runs
          /\ Finish("generated")
          /\ UNCHANGED toast
       \/ /\ toast' = FailureToast("err.message")
          /\ Finish("failed")
          /\ UNCHANGED generatedPassword
    /\ UNCHANGED <<builder, form, lastEdit, lastCmd, invoked, runs>>
    /\ UNCHANGED <<edits, nonGenVars>>

\* the form is not open
GenIdle ==
    /\ builder = "item"
    /\ form = GenIdleState.options
    /\ lastEdit = Str_20
    /\ generatedPassword = 0
    /\ isGenerating = FALSE
    /\ gen = GenIdleState
    /\ toast = NoToast
    /\ lastCmd = <<>>
    /\ invoked = 0
    /\ runs = 0
    /\ edits = 0

\* the form with its default length and no password yet; the character-set
\* checkboxes are as the user has left them
GenInit ==
    /\ builder \in {"item", "plain"}
    /\ \E u, l, n, y \in BOOLEAN :
          form = [GenIdleState.options EXCEPT !.uppercase = u, !.lowercase = l,
                                              !.numbers = n, !.symbols = y]
    /\ lastEdit = Str_20
    /\ generatedPassword = 0
    /\ isGenerating = FALSE
    /\ gen = GenIdleState
    /\ toast = NoToast
    /\ lastCmd = <<>>
    /\ invoked = 0
    /\ runs = 0
    /\ edits = 0

GenNext ==
    \/ EditLength
    \/ Toggle
    \/ HandleGenerate
    \/ InstalledReturns
    \/ SignedInReturns
    \/ GenerateReturns

(***************************************************************************)
(* op-cli: createLoginItem and editLoginItem                               *)
(***************************************************************************)
\* an optional string property of the input: left out (undefined) or given
Missing == [given |-> FALSE, text |-> <<>>]

Given(s) == [given |-> TRUE, text |-> s]

\* if (input.x): undefined and the empty string are falsy
Truthy(v) == v.given /\ v.text # <<>>

\* the properties in the order the builders test them
LoginFields == <<"title", "vaultId", "username", "password", "url", "notes">>

Str_flagTitle == <<"-", "-", "t", "i", "t", "l", "e">>

Str_flagVault == <<"-", "-", "v", "a", "u", "l", "t">>

Str_flagUsername == <<"-", "-", "u", "s", "e", "r", "n", "a", "m", "e">>

Str_flagPassword == <<"-", "-", "p", "a", "s", "s", "w", "o", "r", "d">>

Str_flagUrl == <<"-", "-", "u", "r", "l">>

Str_flagNotes == <<"-", "-", "n", "o", "t", "e", "s">>

Str_format == <<"-", "-", "f", "o", "r", "m", "a", "t">>

Str_json == <<"j", "s", "o", "n">>

Str_formatJson == Str_format \o <<" ">> \o Str_json

Str_itemCreate == <<"i", "t", "e", "m", " ", "c", "r", "e", "a", "t", "e", " ", "\"", "L", "o", "g", "i", "n", "\"">>

Str_itemEdit == <<"i", "t", "e", "m", " ", "e", "d", "i", "t">>

FlagOf(f) ==
    CASE f = "title" -> Str_flagTitle
      [] f = "vaultId" -> Str_flagVault
      [] f = "username" -> Str_flagUsername
      [] f = "password" -> Str_flagPassword
      [] f = "url" -> Str_flagUrl
      [] f = "notes" -> Str_flagNotes

\* the template `--flag "${value}"`
FlagPart(f, value) == FlagOf(f) \o <<" ", "\"">> \o value \o <<"\"">>

\* the parts pushed for the properties k.. of the input, in order
RECURSIVE FieldParts(_, _)
FieldParts(input, k) ==
    IF k > Len(LoginFields) THEN <<>>
    ELSE (IF Truthy(input[LoginFields[k]])
          THEN <<FlagPart(LoginFields[k], input[LoginFields[k]].text)>>
          ELSE <<>>)
         \o FieldParts(input, k + 1)

\* the parts array of createLoginItem ("create") and editLoginItem ("edit")
LoginParts(op, input) ==
    (IF op = "create" THEN <<Str_itemCreate>> ELSE <<Str_itemEdit, input.id>>)
    \o FieldParts(input, 1)
    \o <<Str_formatJson>>

\* the command handed to runOp: parts.join(" ")
LoginCommand(op, input) == JoinSpace(LoginParts(op, input))

\* values a caller passes
Text_u == <<"u", "1">>

Text_spaced == <<"a", " ", "b">>

Text_quoted == <<"a", "\"", "b">>

Text_flagLike == <<"x", "\"", " ", "-", "-", "u", "s", "e", "r", "n", "a", "m", "e", " ", "\"", "y">>

Text_id == <<"i", "7">>

LoginInputs ==
    [ id : {Text_id},
      title : {Given(<<>>), Given(Text_u), Given(Text_spaced), Given(Text_quoted),
               Given(Text_flagLike)},
      vaultId : {Missing, Given(Text_id)},
      username : {Missing, Given(<<>>), Given(Text_u), Given(Text_spaced)},
      password : {Missing, Given(Text_quoted)},
      url : {Missing, Given(Text_u)},
      notes : {Missing, Given(Text_spaced)} ]

NoLoginInput ==
    [id |-> <<>>, title |-> Missing, vaultId |-> Missing, username |-> Missing,
     password |-> Missing, url |-> Missing, notes |-> Missing]

\* the builder joins the parts and runOp tokenizes the command for spawn
BuildLogin ==
    /\ login.op # "none" /\ ~login.done
    /\ login' = [login EXCEPT !.done = TRUE,
                              !.command = LoginCommand(login.op, login.input),
                              !.argv = Tokenize(LoginCommand(login.op, login.input))]
    /\ UNCHANGED nonLoginVars

\* no builder call
LoginIdle ==
    login = [op |-> "none", input |-> NoLoginInput, done |-> FALSE,
             command |-> <<>>, argv |-> <<>>]

\* a call of one of the builders with some input
LoginInit ==
    \E op \in {"create", "edit"}, input \in LoginInputs :
        login = [op |-> op, input |-> input, done |-> FALSE,
                 command |-> <<>>, argv |-> <<>>]

LoginNext == BuildLogin

(***************************************************************************)
(* op-cli: one run of runOp's tokenizer                                    *)
(***************************************************************************)
\* the characters the commands are made of: a letter, the space, the double
\* quote and another white-space character
TokChars == {"a", " ", "\"", "\t"}

\* bound on the length of a command
MaxCmdLen == 5

Commands == UNION { [1..n -> TokChars] : n \in 0..MaxCmdLen }

\* runOp's loop and the push after it
RunTokenizer ==
    /\ ~tok.done
    /\ tok' = [tok EXCEPT !.done = TRUE, !.args = Tokenize(tok.command)]
    /\ UNCHANGED nonTokVars

\* no tokenizer run
TokIdle == tok = [command |-> <<>>, done |-> TRUE, args |-> <<>>]

\* runOp is called with some command
TokInit == \E c \in Commands : tok = [command |-> c, done |-> FALSE, args |-> <<>>]

TokNext == RunTokenizer

(***************************************************************************)
(* op-cli: listItems, listVaults and listItemsInVault                      *)
(***************************************************************************)
ListFns == {"listItems", "listVaults", "listItemsInVault"}

\* JSON text of a value that is not an array
Str_emptyObject == <<"{", "}">>

\* what the child wrote to stdout before it exited with code 0
ListStdouts ==
    { <<>>, <<" ">>, <<"\n">>, <<" ", "\n", "\t">>, <<"\r", "\n">>,
      Str_emptyObject, <<"o", "o", "p", "s">> }
    \cup { JSONStringify(s) : s \in Snapshots }
    \cup { JSONStringify(s) \o <<"\n">> : s \in Snapshots }

\* the errors a runOp call rejects with
RunOpErrors ==
    { TimeoutError, SpawnError, SignInError, AppUnreachableError,
      StderrError(Stderr(TRUE, FALSE, FALSE, FALSE)),
      ExitCodeError(NoStderr),
      ExitCodeError(Stderr(TRUE, FALSE, FALSE, TRUE)) }

\* how a runOp call ends: resolve(stdout.trim()) or reject(error)
RunOpOk(stdout) == [ok |-> TRUE, output |-> Trim(stdout), err |-> Resolved]

RunOpFails(e) == [ok |-> FALSE, output |-> <<>>, err |-> e]

RunOpOutcomes ==
    { RunOpOk(s) : s \in ListStdouts } \cup { RunOpFails(e) : e \in RunOpErrors }

\* what a list operation gives its caller
Returned(isArray, list) == [kind |-> "returned", isArray |-> isArray, list |-> list, err |-> Resolved]

Threw(e) == [kind |-> "threw", isArray |-> FALSE, list |-> <<>>, err |-> e]

SyntaxError == Rejected("syntaxError", NoStderr)

\* "Please sign in to 1Password CLI: op signin"
ListSignInError == Rejected("listSignin", NoStderr)

\* error.message?.includes("not signed in") || error.message?.includes("authentication"):
\* only a message that carries the child's stderr can hold these
MessageHasAuth(e) == e.err \in {"stderr", "exitCode"} /\ e.stderr.auth

\* the catch block of listItems and listVaults
ListCatch(e) == IF MessageHasAuth(e) THEN ListSignInError ELSE e

\* the test that makes a list operation return [] without parsing
IsEmptyOutputMutNever(fn, output) == FALSE

IsEmptyOutput(fn, output) ==
    \/ output = <<>>
    \/ IF fn = "listItemsInVault" THEN Len(output) = 0 ELSE Len(Trim(output)) = 0

\* JSON.parse(output) and what the operation makes of it
ParseOutput(fn, output) ==
    IF output = Str_emptyObject
    THEN (IF fn = "listItemsInVault" THEN Returned(FALSE, <<>>) ELSE Returned(TRUE, <<>>))
    ELSE IF JSONParse(output) = ParseError
    THEN Threw(IF fn = "listItemsInVault" THEN SyntaxError ELSE ListCatch(SyntaxError))
    ELSE Returned(TRUE, JSONParse(output))

\* the list operation fn when its runOp call ends with `outcome`
ListOperation(fn, outcome) ==
    IF ~outcome.ok
    THEN Threw(IF fn = "listItemsInVault" THEN outcome.err ELSE ListCatch(outcome.err))
    ELSE IF IsEmptyOutput(fn, outcome.output) THEN Returned(TRUE, <<>>)
    ELSE ParseOutput(fn, outcome.output)

NoResult == [kind |-> "none", isArray |-> FALSE, list |-> <<>>, err |-> Resolved]

\* the awaited runOp call settles and the operation returns or throws
ListReturns ==
    /\ listOp.fn # "none" /\ ~listOp.done
    /\ listOp' = [listOp EXCEPT !.done = TRUE,
                                !.result = ListOperation(listOp.fn, listOp.outcome)]
    /\ UNCHANGED nonListVars

\* no list operation
ListIdle ==
    listOp = [fn |-> "none", stdout |-> <<>>, outcome |-> RunOpFails(TimeoutError),
              done |-> FALSE, result |-> NoResult]

\* a list operation is awaiting its runOp call, whose child exits with code 0
\* and some stdout, or which fails
ListInit ==
    \E fn \in ListFns :
        \/ \E s \in ListStdouts :
              listOp = [fn |-> fn, stdout |-> s, outcome |-> RunOpOk(s),
                        done |-> FALSE, result |-> NoResult]
        \/ \E e \in RunOpErrors :
              listOp = [fn |-> fn, stdout |-> <<>>, outcome |-> RunOpFails(e),
                        done |-> FALSE, result |-> NoResult]

ListNext == ListReturns

(***************************************************************************)
(* search-items.tsx (the item list) and the vault list: loadItems /        *)
(* loadVaults and the row actions, over the plain invoker                  *)
(***************************************************************************)
\* bound on the user actions (the initial load included) of one run
MaxViewActions == 3

\* the k-th action's handler runs in slot k
Slots == 1..MaxViewActions

\* stderr of a lookup of a field the item does not have
FieldNotFoundStderr == Stderr(TRUE, FALSE, FALSE, FALSE)

\* the error the plain invoker's close handler rejects with for stderr se
PlainError(se) == CloseDecision("plain", 1, se, FALSE).out

\* the errors the runOp calls of the view fail with: what the close handler
\* decides for a non-zero exit, and the timer's error
ViewInstalledErrors == { SpawnError }

ViewSignedInErrors == { PlainError(AuthStderr), PlainError(AppStderr) }

ViewListErrors == { PlainError(AppStderr), TimeoutError }

ViewFieldErrors == { PlainError(FieldNotFoundStderr), TimeoutError }

\* how the runOp call of a list operation ends
ViewListOutcomes ==
    { RunOpOk(JSONStringify(s)) : s \in Snapshots }
    \cup { RunOpOk(<<>>) }
    \cup { RunOpFails(e) : e \in ViewListErrors }

\* how the runOp call of a --fields lookup ends
ViewFieldOutcomes ==
    { RunOpOk(<<>>), RunOpOk(<<"v">>) } \cup { RunOpFails(e) : e \in ViewFieldErrors }

\* how the runOp call of isOPInstalled ends
ViewInstalledOutcomes ==
    { RunOpOk(<<"v">>) } \cup { RunOpFails(e) : e \in ViewInstalledErrors }

\* how the runOp call of isSignedIn ends
ViewSignedInOutcomes ==
    { RunOpOk(<<"v">>) } \cup { RunOpFails(e) : e \in ViewSignedInErrors }

\* messages: a fixed text, or the message of an error (which may carry stderr)
Msg(t) == [text |-> t, stderr |-> NoStderr]

MessageOf(e) == [text |-> e.err, stderr |-> e.stderr]

NoError == Msg("null")

NotInstalledMessage == Msg("1Password CLI is not installed")

PleaseSignInMessage == Msg("Please sign in to 1Password CLI. Run 'op signin'")

NoOTPMessage == Msg("This item does not have an OTP field")

CopiedMessage == Msg("copied to clipboard")

ViewToast(style, title, m) == [style |-> style, title |-> title, message |-> m]

NoViewToast == ViewToast("none", "none", NoError)

\* the toast of a handler's catch block
RowFailureToastMutNone(e) == view.toast

RowFailureToast(e) == ViewToast("failure", "Error", MessageOf(e))

NoOTPToast == ViewToast("failure", "No OTP", NoOTPMessage)

SuccessToast(title) == ViewToast("success", title, CopiedMessage)

\* a handler slot: what runs in it, where it awaits, and what it saw
NoHandler == [kind |-> "none", pc |-> "none", hit |-> FALSE]

RowActions == {"copyPassword", "copyUsername", "copyOTP"}

\* a handler that awaits a runOp call
Awaiting(h) == handlers[h].pc \in {"installed", "signedIn", "listing", "field"}

\* the slot of the next action
NextSlot(h) == h = viewHist.started + 1

\* with the plain invoker the child is spawned in the turn runOp is called
\* in and the handler continues in the turn the child's close is delivered in
ChildrenInFlight == Cardinality({h \in Slots : Awaiting(h)})

\* the data key of the view
ViewKey == IF view.kind = "items" THEN ITEMS ELSE VAULTS

ViewListFn == IF view.kind = "items" THEN "listItems" ELSE "listVaults"

\* the effect on searchText and items, with the search text empty
FilterEffect(list) == list

\* the list is rendered (no error panel) and has a row
RowsShown == view.error = NoError /\ view.filteredItems # <<>>

\* history: the handler of slot h has finished; `cause` is the error of its
\* failed runOp call (Resolved: none), then the error and the toast it showed
Finished(h, kind, cause, shownError, shownToast) ==
    [viewHist EXCEPT !.last = [slot |-> h, kind |-> kind, cause |-> cause,
                               error |-> shownError, toast |-> shownToast,
                               hit |-> handlers[h].hit, fetched |-> <<>>]]

\* loadItems / loadVaults starts: the mount effect, Refresh on a row, or Retry
\* on the error panel
StartLoad(h) ==
    /\ NextSlot(h)
    /\ \/ viewHist.started = 0
       \/ RowsShown
       \/ view.error # NoError
    /\ view' = [view EXCEPT !.isLoading = TRUE, !.error = NoError]
    /\ handlers' = [handlers EXCEPT ![h] = [kind |-> "load", pc |-> "installed", hit |-> FALSE]]
    /\ viewHist' = [viewHist EXCEPT !.started = @ + 1]
    /\ UNCHANGED cacheVars
    /\ UNCHANGED nonViewVars

\* await isOPInstalled() returns
LoadInstalledReturns(h) ==
    /\ handlers[h].kind = "load" /\ handlers[h].pc = "installed"
    /\ \E o \in ViewInstalledOutcomes :
          IF ~o.ok
          THEN /\ view' = [view EXCEPT !.error = NotInstalledMessage, !.isLoading = FALSE]
               /\ handlers' = [handlers EXCEPT ![h] = NoHandler]
               /\ viewHist' = Finished(h, "load", o.err, NotInstalledMessage, NoViewToast)
          ELSE /\ handlers' = [handlers EXCEPT ![h].pc = "signedIn"]
               /\ UNCHANGED <<view, viewHist>>
    /\ UNCHANGED cacheVars
    /\ UNCHANGED nonViewVars

\* whether loadItems goes on to the list operation after reading the cache
ShouldFetchMutSkipOnHit(cached) == cached = NULL

ShouldFetch(cached) == TRUE

\* await isSignedIn() returns; when signed in the cache is read and the list
\* operation is called
LoadSignedInReturns(h) ==
    /\ handlers[h].kind = "load" /\ handlers[h].pc = "signedIn"
    /\ \E o \in ViewSignedInOutcomes :
          IF ~o.ok
          THEN /\ view' = [view EXCEPT !.error = PleaseSignInMessage, !.isLoading = FALSE]
               /\ handlers' = [handlers EXCEPT ![h] = NoHandler]
               /\ viewHist' = Finished(h, "load", o.err, PleaseSignInMessage, NoViewToast)
               /\ UNCHANGED cacheVars
          ELSE LET cached == GetCached(ViewKey)
               IN  /\ IF ShouldFetch(cached)
                      THEN /\ handlers' = [handlers EXCEPT ![h].pc = "listing",
                                                           ![h].hit = (cached # NULL)]
                           /\ viewHist' = [viewHist EXCEPT !.listCalls = @ + 1]
                      ELSE /\ handlers' = [handlers EXCEPT ![h] = NoHandler]
                           /\ viewHist' = Finished(h, "load", Resolved, NoError, NoViewToast)
                   /\ view' = IF cached # NULL
                              THEN [view EXCEPT !.items = cached,
                                                !.filteredItems = FilterEffect(cached),
                                                !.isLoading = FALSE]
                              ELSE view
                   /\ ret' = [op |-> "get", key |-> ViewKey, val |-> cached, at |-> now]
                   /\ UNCHANGED <<cache, now, ticks, setAt, lastSet>>
    /\ UNCHANGED nonViewVars

\* isLoading after the catch block of loadItems: setIsLoading(false)
LoadingAfterCatchMutKeep == view.isLoading

LoadingAfterCatch == FALSE

\* await listItems() / listVaults() returns or throws
LoadListReturns(h) ==
    /\ handlers[h].kind = "load" /\ handlers[h].pc = "listing"
    /\ \E o \in ViewListOutcomes :
          LET r == ListOperation(ViewListFn, o)
          IN  IF r.kind = "returned"
              THEN /\ handlers' = [handlers EXCEPT ![h] = NoHandler]
                   /\ viewHist' = [Finished(h, "load", Resolved, NoError, NoViewToast)
                                      EXCEPT !.last.fetched = r.list,
                                             !.newest = IF h > @.slot
                                                        THEN [slot |-> h, fetched |-> r.list]
                                                        ELSE @]
                   /\ view' = [view EXCEPT !.items = r.list,
                                           !.filteredItems = FilterEffect(r.list),
                                           !.isLoading = FALSE]
                   /\ SetCachedEffect(ViewKey, r.list)
              ELSE /\ view' = [view EXCEPT !.error = MessageOf(r.err),
                                           !.isLoading = LoadingAfterCatch,
                                           !.toast = ViewToast("failure", "Error",
                                                               MessageOf(r.err))]
                   /\ handlers' = [handlers EXCEPT ![h] = NoHandler]
                   /\ viewHist' = Finished(h, "load", IF o.ok THEN r.err ELSE o.err,
                                           MessageOf(r.err),
                                           ViewToast("failure", "Error", MessageOf(r.err)))
                   /\ UNCHANGED cacheVars
    /\ UNCHANGED nonViewVars

\* Copy Password / Copy Username on a row, Copy Password in the detail view:
\* getPassword / getUsername is called
StartCopy(h) ==
    /\ NextSlot(h)
    /\ view.kind = "items" /\ RowsShown
    /\ \E kind \in {"copyPassword", "copyUsername", "detailCopy"} :
          handlers' = [handlers EXCEPT ![h] = [kind |-> kind, pc |-> "field", hit |-> FALSE]]
    /\ viewHist' = [viewHist EXCEPT !.started = @ + 1]
    /\ UNCHANGED view
    /\ UNCHANGED cacheVars
    /\ UNCHANGED nonViewVars

\* Copy OTP on a row: an item that carries an OTP value is copied from at
\* once, otherwise getField(item.id, "one-time password") is called
StartCopyOTP(h) ==
    /\ NextSlot(h)
    /\ view.kind = "items" /\ RowsShown
    /\ \E hasOtp \in BOOLEAN :
          IF hasOtp
          THEN /\ UNCHANGED handlers
               /\ view' = [view EXCEPT !.toast = SuccessToast("OTP copied")]
               /\ viewHist' = [Finished(h, "copyOTP", Resolved, NoError,
                                         SuccessToast("OTP copied"))
                                  EXCEPT !.started = @ + 1]
          ELSE /\ handlers' = [handlers EXCEPT ![h] = [kind |-> "copyOTP", pc |-> "field", hit |-> FALSE]]
               /\ viewHist' = [viewHist EXCEPT !.started = @ + 1]
               /\ UNCHANGED view
    /\ UNCHANGED cacheVars
    /\ UNCHANGED nonViewVars

\* the awaited --fields lookup of a copy handler returns or throws
CopyReturns(h) ==
    /\ handlers[h].kind \in RowActions \cup {"detailCopy"} /\ handlers[h].pc = "field"
    /\ \E o \in ViewFieldOutcomes :
          /\ handlers' = [handlers EXCEPT ![h] = NoHandler]
          /\ LET kind == handlers[h].kind
                 shown == IF kind = "copyOTP"
                          THEN (IF o.ok /\ o.output # <<>>
                                THEN SuccessToast("OTP copied")
                                ELSE NoOTPToast)
                          ELSE IF o.ok THEN SuccessToast("Password copied")
                          ELSE IF kind = "detailCopy" THEN NoViewToast
                          ELSE RowFailureToast(o.err)
             IN  IF kind = "detailCopy" /\ ~o.ok
                 THEN /\ UNCHANGED view
                      /\ viewHist' = [Finished(h, kind, o.err, NoError, shown)
                                         EXCEPT !.unhandled = @ + 1]
                 ELSE /\ view' = [view EXCEPT !.toast = shown]
                      /\ viewHist' = Finished(h, kind, o.err, NoError, shown)
    /\ UNCHANGED cacheVars
    /\ UNCHANGED nonViewVars

NoViewHist ==
    [started |-> 0, listCalls |-> 0, unhandled |-> 0,
     newest |-> [slot |-> 0, fetched |-> <<>>],
     last |-> [slot |-> 0, kind |-> "none", cause |-> Resolved, error |-> NoError,
               toast |-> NoViewToast, hit |-> FALSE, fetched |-> <<>>]]

\* no view is mounted
ViewIdle ==
    /\ view = [kind |-> "none", items |-> <<>>, filteredItems |-> <<>>, error |-> NoError,
               isLoading |-> TRUE, toast |-> NoViewToast]
    /\ handlers = [h \in Slots |-> NoHandler]
    /\ viewHist = NoViewHist

\* a view is mounted: the state hooks hold their initial values
ViewInit ==
    /\ \E kind \in {"items", "vaults"} :
          view = [kind |-> kind, items |-> <<>>, filteredItems |-> <<>>, error |-> NoError,
                  isLoading |-> TRUE, toast |-> NoViewToast]
    /\ handlers = [h \in Slots |-> NoHandler]
    /\ viewHist = NoViewHist

\* the cache a view finds when it is mounted: empty, or left by an earlier run
ViewCacheInit ==
    /\ ticks = 0
    /\ ret = [op |-> "none", key |-> NoKey, val |-> NULL, at |-> 0]
    /\ \/ CacheIdle
       \/ \E k \in DataKeys, snap \in {<<Rec("a", "GitHub")>>}, t \in {0, CACHE_TTL + 1} :
             /\ cache = [[c \in CACHE_KEYS |-> Absent] EXCEPT
                            ![k] = Stored(k, snap), ![LAST_UPDATE] = NumToString(0)]
             /\ now = t
             /\ setAt = [[c \in DataKeys |-> -1] EXCEPT ![k] = 0]
             /\ lastSet = [[c \in DataKeys |-> NULL] EXCEPT ![k] = snap]

ViewNext ==
    \/ \E h \in Slots : StartLoad(h)
    \/ \E h \in Slots : LoadInstalledReturns(h)
    \/ \E h \in Slots : LoadSignedInReturns(h)
    \/ \E h \in Slots : LoadListReturns(h)
    \/ \E h \in Slots : StartCopy(h)
    \/ \E h \in Slots : StartCopyOTP(h)
    \/ \E h \in Slots : CopyReturns(h)

(***************************************************************************)
(* The specifications                                                      *)
(***************************************************************************)
\* the builders, the tokenizer run and the list operations at rest
RestIdle == LoginIdle /\ TokIdle /\ ListIdle /\ CallsIdle

InitCache == CacheIdle /\ SearchIdle /\ RunIdle /\ GenIdle /\ RestIdle /\ ViewIdle

SpecCache == InitCache /\ [][CacheNext]_vars

InitSearch == CacheIdle /\ SearchInit /\ RunIdle /\ GenIdle /\ RestIdle /\ ViewIdle

SpecSearch == InitSearch /\ [][SearchNext]_vars

InitRunOp == CacheIdle /\ SearchIdle /\ RunInit /\ GenIdle /\ RestIdle /\ ViewIdle

SpecRunOp == InitRunOp /\ [][RunNext]_vars

\* the event loop runs what is due: timers fire, time passes, a session
\* resolution returns (its exec calls carry their own timeouts) and a killed
\* child closes; a child that is left alone may run forever
RunFairness ==
    /\ WF_vars(Tick)
    /\ \A a \in Attempts :
          /\ WF_vars(TimerFire(a))
          /\ WF_vars(ResolveAndSpawn(a))
          /\ WF_vars(CloseAfterKill(a))

FairRunOp == SpecRunOp /\ RunFairness

InitGen == CacheIdle /\ SearchIdle /\ RunIdle /\ GenInit /\ RestIdle /\ ViewIdle

SpecGen == InitGen /\ [][GenNext]_vars

InitLogin == CacheIdle /\ SearchIdle /\ RunIdle /\ GenIdle /\ LoginInit /\ TokIdle /\ ListIdle /\ CallsIdle /\ ViewIdle

SpecLogin == InitLogin /\ [][LoginNext]_vars

InitTok == CacheIdle /\ SearchIdle /\ RunIdle /\ GenIdle /\ LoginIdle /\ TokInit /\ ListIdle /\ CallsIdle /\ ViewIdle

SpecTok == InitTok /\ [][TokNext]_vars

InitList == CacheIdle /\ SearchIdle /\ RunIdle /\ GenIdle /\ LoginIdle /\ TokIdle /\ ListInit /\ CallsIdle /\ ViewIdle

SpecList == InitList /\ [][ListNext]_vars

InitCalls ==
    CacheIdle /\ SearchIdle /\ CallsInit /\ GenIdle /\ LoginIdle /\ TokIdle /\ ListIdle /\ ViewIdle

SpecCalls == InitCalls /\ [][CallsNext]_vars

\* the loads of a view alone
LoadNext ==
    \/ \E h \in Slots : StartLoad(h)
    \/ \E h \in Slots : LoadInstalledReturns(h)
    \/ \E h \in Slots : LoadSignedInReturns(h)
    \/ \E h \in Slots : LoadListReturns(h)

InitView == ViewCacheInit /\ SearchIdle /\ RunIdle /\ GenIdle /\ RestIdle /\ ViewInit

SpecView == InitView /\ [][ViewNext]_vars

SpecLoads == InitView /\ [][LoadNext]_vars

\* every invocation of the external tool settles (runOp's timer sees to it),
\* so each await of a load returns (each of these steps changes `handlers`)
LoadFairness ==
    \A h \in Slots :
        /\ WF_handlers(LoadInstalledReturns(h))
        /\ WF_handlers(LoadSignedInReturns(h))
        /\ WF_handlers(LoadListReturns(h))

FairLoads == SpecLoads /\ LoadFairness

(***************************************************************************)
(* The claims                                                              *)
(***************************************************************************)
\* the age of key k's latest set
AgeOf(k) == now - setAt[k]

\* C3 (as claimed; the shared op_last_update key breaks it): the getter of a
\* key returns null whenever more than 5 minutes have elapsed since the most
\* recent set of that same key.
C3_StaleIsAbsent ==
    \A k \in DataKeys : (setAt[k] >= 0 /\ AgeOf(k) > CACHE_TTL) => GetCached(k) = NULL

\* C4: a get at most 5 minutes (inclusive) after the most recent set(key, s),
\* with no clearCache in between, returns exactly s; a set replaces the
\* previous snapshot of its key.
C4_FreshIsLastSet ==
    /\ \A k \in DataKeys :
          (setAt[k] >= 0 /\ AgeOf(k) <= CACHE_TTL) => GetCached(k) = lastSet[k]
    /\ (ret.op = "get" /\ ret.at = now /\ setAt[ret.key] >= 0 /\ AgeOf(ret.key) <= CACHE_TTL)
          => ret.val = lastSet[ret.key]

\* C4 witness: a get exactly 5 minutes after the second set of the items
\* returned the second snapshot, not the first
C4_Witness ==
    /\ ret.op = "get" /\ ret.key = ITEMS /\ ret.at = now
    /\ setAt[ITEMS] > 0
    /\ AgeOf(ITEMS) = CACHE_TTL
    /\ ret.val = lastSet[ITEMS]
    /\ Len(ret.val) = 2

\* the score the ranking rules give an item for a query
ExpectedScore(item, q) ==
    LET lq == ToLowerCase(q)
        Has(str) == Includes(ToLowerCase(str), lq)
    IN  (IF Has(item.title) THEN 10 ELSE 0)
        + (IF StartsWith(ToLowerCase(item.title), lq) THEN 5 ELSE 0)
        + 3 * Cardinality({i \in DOMAIN item.urls : Has(item.urls[i].href)})
        + 2 * Cardinality({i \in DOMAIN item.fields : Has(item.fields[i].value)})
        + Cardinality({i \in DOMAIN item.fields : Has(item.fields[i].label)})
        + (IF Has(item.notesPlain) THEN 1 ELSE 0)

\* the positions of an item in the returned list
ResultsOf(item) == {j \in DOMAIN results.list : results.list[j].item = item}

\* the query is empty or all white space
BlankQuery == \A i \in DOMAIN query : query[i] \in {" ", "\t", "\n", "\r"}

\* C5: for an empty or whitespace-only query searchItems returns one result
\* per item, in the original order, each without score and matched fields.
C5_BlankQueryReturnsAll ==
    (results.done /\ BlankQuery) =>
        /\ Len(results.list) = Len(items)
        /\ \A i \in DOMAIN items : results.list[i] = [item |-> items[i]]

\* C5 witness: a whitespace-only query over a list of three items
C5_Witness ==
    /\ results.done
    /\ query = <<" ", "\t">>
    /\ items = <<Bitbucket, Legit, GitHub>>
    /\ Len(results.list) = 3

\* C6: for a non-blank query an item is in the result exactly once if its
\* score is positive and not at all otherwise, and the reported score is the
\* sum of the ranking rules.
C6_ScoreRules ==
    (results.done /\ ~BlankQuery) =>
        /\ \A i \in DOMAIN items :
              /\ Cardinality(ResultsOf(items[i])) =
                    (IF ExpectedScore(items[i], query) > 0 THEN 1 ELSE 0)
              /\ \A j \in ResultsOf(items[i]) :
                    results.list[j].score = ExpectedScore(items[i], query)
        /\ \A j \in DOMAIN results.list : \E i \in DOMAIN items : results.list[j].item = items[i]
        /\ (query = Query_git) =>
              \A j \in DOMAIN results.list :
                 /\ results.list[j].item = GitHub => results.list[j].score = 15
                 /\ results.list[j].item = Mail => results.list[j].score = 1
                 /\ results.list[j].item = Bank => results.list[j].score = 2

\* C6 witness: "git" over a title-prefix item, a label-only item and an item
\* that does not match
C6_Witness ==
    /\ results.done
    /\ query = <<"G", "I", "T">>
    /\ items = <<Mail, GitHub, Bank>>
    /\ Len(results.list) = 3
    /\ results.list[1].score = 15
    /\ results.list[3].score = 1

\* the position of an item in the input list
PosOf(item) == CHOOSE i \in DOMAIN items : items[i] = item

\* C7: for a non-blank query the results are ordered by score descending, and
\* results of equal score keep the relative order of the input list.
C7_SortedStable ==
    (results.done /\ ~BlankQuery) =>
        /\ \A i, j \in DOMAIN results.list :
              i < j =>
                 /\ results.list[i].score >= results.list[j].score
                 /\ results.list[i].score = results.list[j].score
                       => PosOf(results.list[i].item) < PosOf(results.list[j].item)
        /\ (query = Query_git /\ items = <<GitHub, Bitbucket>>) =>
              /\ Len(results.list) = 2
              /\ results.list[1].item = GitHub /\ results.list[1].score = 15
              /\ results.list[2].item = Bitbucket /\ results.list[2].score = 2

\* C7 witness: "git" over three items, two of them tied at score 2 and the
\* best one last in the input
C7_Witness ==
    /\ results.done
    /\ query = Query_git
    /\ items = <<Bitbucket, Bank, GitHub>>
    /\ Len(results.list) = 3
    /\ results.list[1].item = GitHub
    /\ results.list[2].item = Bitbucket
    /\ results.list[3].item = Bank

\* attempt a's child exited by itself, non-zero, with an auth-required stderr
AuthFailed(a) ==
    /\ att[a].pc = "closed" /\ att[a].exit = "exit"
    /\ att[a].code # 0 /\ att[a].stderr.auth

\* attempt a has spawned its child
HasSpawned(a) == att[a].pc \in {"running", "killed", "closed"}

\* C1: in the session-caching runOp, a first spawn that exits non-zero with an
\* auth-required stderr clears the session slot and leads to exactly one more
\* spawn, made after a new session resolution; when that one ends
\* auth-required too there is no third spawn and the caller's promise is
\* rejected.
C1_AuthRetryOnce ==
    /\ [](variant = "session" /\ AuthFailed(1) =>
            /\ att[2].pc # "none"
            /\ att[3].pc = "none"
            /\ spawns <= 2
            /\ HasSpawned(2) =>
                  /\ spawns = 2
                  /\ att[2].fresh
                  /\ resolutions >= 1
                  /\ att[2].session # NoSession =>
                        /\ att[2].session.value = issued
                        /\ att[2].env[att[2].session.name] = att[2].session.value
            /\ AuthFailed(2) => promise[1].state = "rejected")
    /\ [][(variant = "session" /\ ~AuthFailed(1) /\ AuthFailed(1)') =>
             cachedSessionToken' = NoSession]_vars

\* C1 witness: both spawns ended auth-required, the slot had held a handle, and
\* the caller got the sign-in error
C1_Witness ==
    /\ variant = "session"
    /\ AuthFailed(1) /\ AuthFailed(2)
    /\ att[1].session = Handle("acct", 1)
    /\ att[2].session = Handle("acct", 2)
    /\ spawns = 2
    /\ promise[1] = SignInError

OutOfRangeTexts == { <<"7">>, <<"1", "2", "9">> }

\* the decimal numerals of 8..128
InRangeTexts == { NumToString(n) : n \in 8..128 }

\* the arguments of the last invocation carry --length with a value in 8..128
LengthArgInRange ==
    \E i \in 1..(Len(lastCmd) - 1) : lastCmd[i] = Str_length /\ lastCmd[i + 1] \in InRangeTexts

AllDisabled(options) == \A c \in CharClasses : ~options[c]

\* C9: with uppercase, lowercase, digits and symbols all disabled,
\* handleGenerate reports an error, never invokes generatePassword for that
\* request and leaves the generated password as it was.
C9_NoCharsetNoInvocation ==
    /\ []((gen.pc = "done" /\ AllDisabled(gen.options)) =>
            /\ gen.outcome \in {"notInstalled", "notSignedIn", "noCharset"}
            /\ toast.style = "failure" /\ toast.run = runs
            /\ invoked = gen.invokedBefore
            /\ generatedPassword = gen.before)
    /\ [][(gen.pc \notin {"idle", "done"} /\ AllDisabled(gen.options)) =>
             /\ invoked' = invoked
             /\ generatedPassword' = generatedPassword]_vars

\* C9 witness: a second request, with every class disabled, ended with the
\* character-set error and the first request's password still shown
C9_Witness ==
    /\ gen.pc = "done" /\ gen.outcome = "noCharset"
    /\ AllDisabled(gen.options)
    /\ gen.before = 1 /\ generatedPassword = 1
    /\ invoked = 1
    /\ toast.message = "Please select at least one character set"

\* the arguments of a vector
ArgsOf(args) == {args[i] : i \in DOMAIN args}

\* the flag that suppresses a character class
NoFlag(c) ==
    CASE c = "uppercase" -> Str_noUppercase
      [] c = "lowercase" -> Str_noLowercase
      [] c = "numbers" -> Str_noDigits
      [] c = "symbols" -> Str_noSymbols

\* a generatePassword invocation of the running request has been made
Invoked == gen.pc = "generating" \/ (gen.pc = "done" /\ gen.outcome \in {"generated", "failed"})

OnlyDigits20 ==
    [length |-> 20, uppercase |-> FALSE, lowercase |-> FALSE, numbers |-> TRUE,
     symbols |-> FALSE, excludeAmbiguous |-> FALSE]

\* C10: the command built by generatePassword contains --length followed by
\* the configured length, and --no-<class> for exactly the disabled classes;
\* length 20 with only digits enabled gives
\* --length 20 --no-uppercase --no-lowercase --no-symbols.
C10_GenerateFlags ==
    Invoked =>
        /\ \E i \in 1..(Len(lastCmd) - 1) :
              lastCmd[i] = Str_length /\ lastCmd[i + 1] = NumToString(gen.options.length)
        /\ \A c \in CharClasses : (NoFlag(c) \in ArgsOf(lastCmd)) <=> ~gen.options[c]
        /\ (gen.options = OnlyDigits20) =>
              \E k \in 0..Len(lastCmd) :
                 /\ Len(lastCmd) = k + 5
                 /\ SubSeq(lastCmd, k + 1, k + 5) =
                       <<Str_length, Str_20, Str_noUppercase, Str_noLowercase, Str_noSymbols>>

\* C10 witness: length 20 with only digits enabled, through the item builder
C10_Witness ==
    /\ gen.pc = "done" /\ gen.outcome = "generated"
    /\ builder = "item"
    /\ gen.options = OnlyDigits20
    /\ lastCmd = << <<"i", "t", "e", "m">>, <<"g", "e", "n", "e", "r", "a", "t", "e">>, <<"-", "-", "c", "a", "t", "e", "g", "o", "r", "y">>, <<"p", "a", "s", "s", "w", "o", "r", "d">>,
                    Str_length, Str_20, Str_noUppercase, Str_noLowercase, Str_noSymbols >>

(***************************************************************************)
(* createLoginItem / editLoginItem: the command and the argument vector    *)
(***************************************************************************)
\* the positions of the flag of property f in an argument vector
FlagAt(argv, f) == {i \in 1..Len(argv) : argv[i] = FlagOf(f)}

FieldNames == {LoginFields[k] : k \in 1..Len(LoginFields)}

GivenFields(input) == {f \in FieldNames : Truthy(input[f])}

\* C11: for every input to createLoginItem and editLoginItem the flag of a
\* property (title, vault, username, password, url, notes) is in the built
\* command if and only if the property is given and non-empty, no flag is
\* followed by an empty value, and --format json is the last argument.
C11_FlagsIffGiven ==
    login.done =>
        /\ \A f \in FieldNames : (FlagAt(login.argv, f) # {}) <=> Truthy(login.input[f])
        /\ \A f \in FieldNames : \A i \in FlagAt(login.argv, f) :
              i < Len(login.argv) /\ login.argv[i + 1] # <<>>
        /\ Len(login.argv) >= 2
        /\ login.argv[Len(login.argv) - 1] = Str_format
        /\ login.argv[Len(login.argv)] = Str_json

\* C12: every given title, username, password, URL and notes value, spaces and
\* double quotes included, is exactly one argument of the child, character for
\* character, directly after its flag, and the values add no other argument.
C12_ValueIsOneArgument ==
    login.done =>
        /\ \A f \in GivenFields(login.input) :
              \E i \in FlagAt(login.argv, f) :
                  i < Len(login.argv) /\ login.argv[i + 1] = login.input[f].text
        /\ Len(login.argv) = 3 + 2 * Cardinality(GivenFields(login.input)) + 2

(***************************************************************************)
(* runOp's tokenizer                                                       *)
(***************************************************************************)
\* position i of cmd lies outside the double-quoted spans: an even number of
\* double quotes precede it
Outside(cmd, i) == Cardinality({j \in 1..(i - 1) : cmd[j] = "\""}) % 2 = 0

\* position i holds a separator: a character of seps outside the quoted spans
IsSeparator(cmd, i, seps) == cmd[i] \in seps /\ Outside(cmd, i)

\* the positions whose characters go into tokens, in order
Kept(cmd, seps) ==
    SelectSeq([i \in 1..Len(cmd) |-> i],
              LAMBDA i : cmd[i] # "\"" /\ ~IsSeparator(cmd, i, seps))

RECURSIVE Flatten(_)
Flatten(args) == IF args = <<>> THEN <<>> ELSE Head(args) \o Flatten(Tail(args))

\* the index of the argument that holds the k-th character of Flatten(args)
RECURSIVE ArgOf(_, _)
ArgOf(args, k) ==
    IF k <= Len(Head(args)) THEN 1 ELSE 1 + ArgOf(Tail(args), k - Len(Head(args)))

\* args are the tokens of cmd when the characters of seps separate: no token
\* is empty, the tokens hold the kept characters in order (quotes and
\* separators removed), and two neighbouring kept characters share a token
\* exactly when no separator lies between them
SplitsAt(cmd, args, seps) ==
    LET kept == Kept(cmd, seps)
        flat == Flatten(args)
    IN  /\ \A a \in 1..Len(args) : args[a] # <<>>
        /\ Len(flat) = Len(kept)
        /\ \A k \in 1..Len(kept) : flat[k] = cmd[kept[k]]
        /\ \A k \in 1..(Len(kept) - 1) :
              (ArgOf(args, k) = ArgOf(args, k + 1))
                  <=> ~\E i \in (kept[k] + 1)..(kept[k + 1] - 1) : IsSeparator(cmd, i, seps)

\* C20 as stated: the tokenizer splits the command at white space outside
\* double-quoted spans, keeps white space inside them, removes the quotes and
\* yields no empty token.
C20_SplitsAtWhiteSpace ==
    tok.done => SplitsAt(tok.command, tok.args, {c \in TokChars : IsWhiteSpace(c)})

\* C20 amended: the tokenizer splits the command at space characters (U+0020)
\* outside double-quoted spans and at no other white space; everything inside
\* a quoted span is kept, the quotes are removed and no token is empty.
C20_SplitsAtSpaces == tok.done => SplitsAt(tok.command, tok.args, {" "})

\* a quoted argument with a space in it has become one token
C20_Witness ==
    /\ tok.done
    /\ tok.command = <<"\"", "a", " ", "a", "\"">>
    /\ tok.args = << <<"a", " ", "a">> >>

(***************************************************************************)
(* The list operations                                                     *)
(***************************************************************************)
\* C16: when the external tool exits successfully with empty or
\* white-space-only stdout, listItems, listVaults and listItemsInVault return
\* an empty list and do not fail.
C16_EmptyOutputIsEmptyList ==
    (listOp.done /\ listOp.outcome.ok /\ Trim(listOp.stdout) = <<>>)
        => listOp.result = Returned(TRUE, <<>>)

\* listItemsInVault has returned [] for a stdout of white space only
C16_Witness ==
    /\ listOp.done
    /\ listOp.fn = "listItemsInVault"
    /\ listOp.stdout = <<" ", "\n", "\t">>
    /\ listOp.outcome.ok
    /\ listOp.result = Returned(TRUE, <<>>)

(***************************************************************************)
(* runOp of the plain invoker: classification of a non-zero exit           *)
(***************************************************************************)
\* the call's child has exited by itself with a non-zero code
ExitedNonZero ==
    /\ variant = "plain"
    /\ att[1].pc = "closed" /\ att[1].exit = "exit" /\ att[1].code # 0

\* the three outcomes, and the stderr a command-failed message carries
OutcomeClass(p) ==
    IF p.state # "rejected" THEN "none"
    ELSE IF p.err = "signin" THEN "authRequired"
    ELSE IF p.err = "appUnreachable" THEN "appUnreachable"
    ELSE IF p.err \in {"stderr", "exitCode"} THEN "commandFailed"
    ELSE "other"

\* the call was rejected with the error of class c; a command-failed error
\* carries the raw stderr
ClassifiedAs(c) ==
    /\ OutcomeClass(promise[1]) = c
    /\ c = "commandFailed" => promise[1].stderr = att[1].stderr

\* C17 as stated: a non-zero exit is classified by the first matching rule in
\* the order auth-required, app-unreachable, command-failed (raw stderr kept).
C17_AuthBeforeAppUnreachable ==
    ExitedNonZero =>
        ClassifiedAs(IF att[1].stderr.auth THEN "authRequired"
                     ELSE IF att[1].stderr.app THEN "appUnreachable"
                     ELSE "commandFailed")

\* C17 amended: a non-zero exit is classified by the first matching rule in
\* the order app-unreachable, auth-required, command-failed (raw stderr kept);
\* every non-zero exit yields exactly one of the three.
C17_AppUnreachableBeforeAuth ==
    ExitedNonZero =>
        ClassifiedAs(IF att[1].stderr.app THEN "appUnreachable"
                     ELSE IF att[1].stderr.auth THEN "authRequired"
                     ELSE "commandFailed")

\* a stderr with both an auth message and an app-unreachable message was
\* classified
C17_Witness ==
    /\ ExitedNonZero
    /\ att[1].stderr.auth /\ att[1].stderr.app
    /\ promise[1] = AppUnreachableError

(***************************************************************************)
(* The item list and the vault list                                        *)
(***************************************************************************)
Last == viewHist.last

\* the last handler to finish ran into a failed runOp call
LastFailed == Last.cause.state = "rejected"

\* C13: when the external tool fails with an app-unreachable stderr while the
\* item list or vault list is being loaded, the error shown is the
\* app-unreachable error, not "not installed" or "please sign in".
C13_AppUnreachableIsShown ==
    (Last.kind = "load" /\ Last.cause = AppUnreachableError)
        => Last.error = MessageOf(AppUnreachableError)

\* C14: every failed invocation started by a copy action (password, username,
\* OTP, detail view) reaches the user as a failure notification with that
\* failure's message; only "field not found" in the OTP fallback lookup is
\* swallowed and reported as the item having no OTP.
C14_CopyFailuresAreShown ==
    (Last.kind \in RowActions \cup {"detailCopy"} /\ LastFailed)
        => IF Last.kind = "copyOTP" /\ Last.cause = PlainError(FieldNotFoundStderr)
           THEN Last.toast = NoOTPToast
           ELSE Last.toast = ViewToast("failure", "Error", MessageOf(Last.cause))

\* C15: under any interleaving of user actions at most one child process of
\* the external tool is in flight.
C15_AtMostOneChild == ChildrenInFlight <= 1

\* C18: every load that passes the installed and signed-in checks issues a
\* list invocation whether or not a cached snapshot was found; when the
\* invocation succeeds the cache holds exactly the fetched list, and when it
\* fails the cache is left unchanged.  (A step that leaves handlers
\* unchanged moves no handler, so the subscript loses nothing.)
C18_LoadAlwaysRefetches ==
    [][\A h \in Slots :
          /\ (handlers[h].pc = "signedIn" /\ handlers'[h].pc # "signedIn")
                => \/ /\ handlers'[h].pc = "listing"
                      /\ viewHist'.listCalls = viewHist.listCalls + 1
                   \/ /\ viewHist'.last.slot = h
                      /\ viewHist'.last.cause.state = "rejected"
          /\ (handlers[h].pc = "listing" /\ handlers'[h].pc # "listing")
                => /\ viewHist'.last.slot = h
                   /\ IF viewHist'.last.cause.state = "rejected"
                      THEN cache' = cache
                      ELSE /\ cache'[ViewKey] = JSONStringify(viewHist'.last.fetched)
                           /\ lastSet'[ViewKey] = viewHist'.last.fetched
                           /\ setAt'[ViewKey] = now]_handlers

\* a load that found a valid cached snapshot has fetched another list, and the
\* cache holds the fetched one
C18_Witness ==
    /\ Last.kind = "load" /\ Last.hit /\ ~LastFailed
    /\ Last.fetched = <<Rec("b", "Bitbucket"), Rec("a", "GitHub")>>
    /\ cache[ViewKey] = JSONStringify(Last.fetched)
    /\ GetCached(ViewKey) = Last.fetched

\* the list state a row action must leave alone
ListState == <<view.items, view.filteredItems, view.error, view.isLoading, cache>>

\* C19: a failing row action (copy password, copy username, copy OTP) shows a
\* failure notification and leaves items, filteredItems, the error panel
\* state, isLoading and the item cache as they were.
C19_RowFailureLeavesListAlone ==
    [][\A h \in Slots :
          (handlers[h].kind \in RowActions /\ handlers'[h] # handlers[h])
             => /\ ListState' = ListState
                /\ viewHist'.last.cause.state = "rejected"
                      => /\ viewHist'.last.toast.style = "failure"
                         /\ view'.toast = viewHist'.last.toast]_handlers

\* a copy of a password has failed with a list on display
C19_Witness ==
    /\ Last.kind = "copyPassword" /\ LastFailed
    /\ view.toast = ViewToast("failure", "Error", MessageOf(Last.cause))
    /\ view.items # <<>>

\* the first spawn has failed and its close handler saw no auth-required
\* stderr: the child could not be started, exited non-zero, or was killed by
\* the timer
FirstFailedOtherwise ==
    /\ att[1].pc = "closed"
    /\ att[1].exit = "error" \/ att[1].code # 0
    /\ ~att[1].stderr.auth

RetryFailedOtherwise ==
    /\ variant = "session" /\ AuthFailed(1)
    /\ att[2].pc = "closed" /\ att[2].exit = "exit"
    /\ att[2].code # 0 /\ ~att[2].stderr.auth

\* C24: when the single auth retry fails for a reason other than
\* auth-required, the error the caller gets reports that reason and is not
\* the please-sign-in error.
C24_RetryFailureReported ==
    RetryFailedOtherwise => promise[1] # SignInError

\* a token the close handler of attempt 1 invalidated
Invalidated(v) == AuthFailed(1) /\ att[1].session # NoSession /\ v = att[1].session.value

\* C25: after an auth-required failure invalidated the session handle, the
\* retry's child environment carries a session token only if a session
\* resolution made after the invalidation returned it; when that resolution
\* fails the invalidated token is not handed to the child.
C25_InvalidatedTokenNotReused ==
    (variant = "session" /\ AuthFailed(1) /\ HasSpawned(2)) =>
        \A n \in SessionNames :
            att[2].env[n] # 0 =>
                /\ att[2].session = Handle(n, att[2].env[n])
                /\ ~Invalidated(att[2].env[n])

\* a child of the call is running, or the call is about to spawn one
ChildPending(a) == att[a].pc \in {"resolving", "running"}

\* C26: once a runOp call has settled towards its caller no child spawned on
\* its behalf is still running and none is spawned afterwards.
C26_NoChildAfterSettle ==
    promise[1].state # "pending" => \A a \in Attempts : ~ChildPending(a)

\* raw-session requests in flight
RawInFlight == Cardinality({c \in Calls : calls[c].pc = "signin"})

\* C22: while a session handle is cached getSessionToken returns that handle
\* and starts neither a raw-session nor an account-list request: the call
\* goes straight to its spawn with the handle in the child's environment; a
\* raw-session request is started only with the slot empty.
C22_CachedHandleReused ==
    [][/\ resolutions' # resolutions => cachedSessionToken' = NoSession
       /\ \A c \in Calls :
             (calls[c].pc = "none" /\ calls'[c].pc # "none" /\ cachedSessionToken # NoSession)
                => /\ calls'[c].pc = "running"
                   /\ calls'[c].session = cachedSessionToken
                   /\ resolutions' = resolutions
                   /\ cachedSessionToken' = cachedSessionToken]_calls

\* C22 witness: the first call resolved a session and the second call, made
\* afterwards, ran with the same handle and no further request
C22_Witness ==
    /\ resolutions = 1
    /\ issued = 1
    /\ calls[1].pc = "done"
    /\ calls[2].pc = "running" /\ calls[2].session = Handle("acct", 1)
    /\ cachedSessionToken = Handle("acct", 1)

\* C23: runOp calls started while the session slot is empty resolve the
\* session once: at most one raw-session request is in flight at a time.
C23_OneResolutionInFlight == RawInFlight <= 1

\* a load is running
LoadInFlight == \E h \in Slots : handlers[h].kind = "load"

\* C27: when loads of the item list overlap, then once they have completed
\* the displayed items and the item cache hold the list fetched by the load
\* that was started last, in whatever order the fetches finished.
C27_LastStartedLoadWins ==
    (view.kind = "items" /\ ~LoadInFlight /\ viewHist.newest.slot > 0)
        => /\ view.items = viewHist.newest.fetched
           /\ cache[ITEMS] = JSONStringify(viewHist.newest.fetched)

\* the other data key
OtherKey(k) == IF k = ITEMS THEN VAULTS ELSE ITEMS

\* two results of a getter are the same: both null, or the same list
SameResult(a, b) == IF a = NULL THEN b = NULL ELSE (b # NULL /\ a = b)

\* C28: a set on one cache key never changes what the getter of the other
\* key returns: getCachedItems returns the same immediately before and
\* immediately after setCachedVaults, and getCachedVaults the same before and
\* after setCachedItems.
C28_SetLeavesOtherKey ==
    [][\A k \in DataKeys :
          (ret'.op = "set" /\ ret'.key = k /\ now' = now)
             => SameResult(GetCached(OtherKey(k)), GetCached(OtherKey(k))')]_setAt

\* C29 (as claimed; a text with a numeral in front, like 12x, is taken for
\* its numeral): after any edits of the length field and toggles the length
\* is an integer in [8,128] and so is the --length of every invocation; an
\* edit whose text is not a number in that range leaves the length unchanged.
C29_InvalidEditLeavesLength ==
    /\ [](/\ form.length \in 8..128
          /\ invoked > 0 => LengthArgInRange)
    /\ [][(edits' = edits + 1 /\ lastEdit' \notin InRangeTexts)
             => form'.length = form.length]_edits

\* C29 (amended): the length is an integer in [8,128] and so is the --length
\* of every invocation; an edit is judged by parseInt(text, 10): when that is
\* NaN or outside [8,128] the length is unchanged, otherwise the length
\* becomes that integer, whatever follows the numeral in the text.
C29_ParsedEditDecides ==
    /\ [](/\ form.length \in 8..128
          /\ invoked > 0 => LengthArgInRange)
    /\ [][edits' = edits + 1
             => LET num == ParseInt(lastEdit')
                IN  IF ~num.nan /\ num.val \in 8..128
                    THEN form'.length = num.val
                    ELSE form'.length = form.length]_edits

\* C29 witness: after 129 and then 12x were typed a password of length 12
\* was requested
C29_Witness ==
    /\ edits = 2
    /\ lastEdit = <<"1", "2", "x">>
    /\ form.length = 12
    /\ invoked > 0
    /\ \E i \in 1..(Len(lastCmd) - 1) :
          lastCmd[i] = Str_length /\ lastCmd[i + 1] = <<"1", "2">>

\* C30: every started load finishes, and it finishes with isLoading false
\* and with the error set or the items replaced by the list it fetched, on
\* every path (not installed, not signed in, cache hit, cache miss, fetch
\* failure), given that each invocation of the external tool settles.  (A
\* slot runs one load, so a state with no load in flight is one in which
\* every load that was in flight has finished.)
C30_LoadFinishes ==
    /\ [][\A h \in Slots :
             (handlers[h].kind = "load" /\ handlers'[h].kind = "none")
                => /\ view'.isLoading = FALSE
                   /\ \/ view'.error # NoError
                      \/ /\ viewHist'.last.cause = Resolved
                         /\ view'.items = viewHist'.last.fetched]_handlers
    /\ LoadInFlight ~> ~LoadInFlight

\* C30 witness: a load that missed the cache failed in its fetch and left the
\* error set and isLoading false
C30_Witness ==
    /\ Last.kind = "load" /\ ~Last.hit
    /\ Last.cause = TimeoutError
    /\ view.error = MessageOf(TimeoutError)
    /\ view.items = <<>>
    /\ ~view.isLoading

====
